---- MODULE Spec2Model ----
(***************************************************************************)
(* Zero core runtime: the Tensor primitive (tensor.hpp), its view algebra  *)
(* (tensor.hpp, reshape.hpp), the memory primitives (memory.hpp), the      *)
(* allocator binding (allocator.hpp) and the dense kernels (ops/*.hpp).    *)
(***************************************************************************)
EXTENDS Integers, Sequences, FiniteSets, TLC

(***************************************************************************)
(* Program constants and model bounds                                      *)
(***************************************************************************)
MAX_DIMS == 8

MaxRank == 2
MaxExtent == 2
MaxBufs == 2
MaxValue == 1

Dims == 0 .. (MAX_DIMS - 1)
\* The caller's two Tensor variables: t, which it creates, and v, which it derives.
Slots == {"t", "v"}
BufIds == 1 .. MaxBufs
ExtBuf == 0 - 1

DTypes == {"F16", "F32", "F64", "I8", "I16", "I32", "I64",
           "U8", "U16", "U32", "U64", "Bool", "BF16"}
Devices == {"CPU", "GPU", "NPU"}
ModelDTypes == {"F32", "U8"}

dtype_size(dtype) ==
  CASE dtype = "F16" -> 2
    [] dtype = "F32" -> 4
    [] dtype = "F64" -> 8
    [] dtype = "I8" -> 1
    [] dtype = "I16" -> 2
    [] dtype = "I32" -> 4
    [] dtype = "I64" -> 8
    [] dtype = "U8" -> 1
    [] dtype = "U16" -> 2
    [] dtype = "U32" -> 4
    [] dtype = "U64" -> 8
    [] dtype = "Bool" -> 1
    [] dtype = "BF16" -> 2

dtype_alignment(dtype) == dtype_size(dtype)

device_available(device) == device = "CPU"

(***************************************************************************)
(* Pointers: a buffer identity and a byte offset into it.  Buffer 0 is no  *)
(* buffer, so Null is the null pointer and Ptr(0, k) with k # 0 is what    *)
(* pointer arithmetic on a null pointer leaves.  ExtBuf is caller memory   *)
(* that does not come from mem_alloc.                                      *)
(***************************************************************************)
Ptr(b, o) == [buf |-> b, off |-> o]
Null == Ptr(0, 0)
PtrAdd(p, k) == Ptr(p.buf, p.off + k)

ZeroArr == [i \in Dims |-> 0]

\* A shape argument (const int64_t* with its int8_t ndim).
ShapeArgs ==
  UNION { { [nd |-> n, sh |-> f] : f \in [0 .. (n - 1) -> 0 .. MaxExtent] } : n \in 0 .. MaxRank }

(***************************************************************************)
(* memory.hpp: layout calculator                                           *)
(***************************************************************************)
RECURSIVE BytesLoop(_, _, _, _)
BytesLoop(shape, ndim, i, numel) ==
  IF i < ndim THEN BytesLoop(shape, ndim, i + 1, numel * shape[i]) ELSE numel

\* calc_tensor_bytes without the element width.
BytesWithoutWidth(shape, ndim, dtype) == BytesLoop(shape, ndim, 0, 1)

calc_tensor_bytes(shape, ndim, dtype) ==
  IF ndim = 0 THEN dtype_size(dtype)
  ELSE BytesLoop(shape, ndim, 0, 1) * dtype_size(dtype)

RECURSIVE StridesLoop(_, _, _, _)
StridesLoop(shape, i, stride, strides) ==
  IF i >= 0
  THEN StridesLoop(shape, i - 1, stride * shape[i], [strides EXCEPT ![i] = stride])
  ELSE strides

\* strides is the output array; entries at index >= ndim are left as they were.
calc_contiguous_strides(shape, ndim, dtype, strides) ==
  IF ndim = 0 THEN strides
  ELSE StridesLoop(shape, ndim - 1, dtype_size(dtype), strides)

(***************************************************************************)
(* tensor.hpp: the Tensor value and its pure members                       *)
(***************************************************************************)
empty ==
  [data |-> Null, dtype |-> "F32", device |-> "CPU", ndim |-> 0,
   shape |-> ZeroArr, strides |-> ZeroArr, owns_data |-> FALSE]

\* for (i = 0; i < ndim; ++i) dst[i] = src[i];
CopyPrefix(dst, src, ndim) == [i \in Dims |-> IF i < ndim THEN src[i] ELSE dst[i]]

RECURSIVE NumelLoop(_, _, _)
NumelLoop(t, i, n) ==
  IF i < t.ndim THEN NumelLoop(t, i + 1, n * t.shape[i]) ELSE n

numel(t) == IF t.ndim = 0 THEN 1 ELSE NumelLoop(t, 0, 1)

nbytes(t) == numel(t) * dtype_size(t.dtype)

RECURSIVE ContigLoop(_, _, _)
ContigLoop(t, i, expected_stride) ==
  IF i >= 0
  THEN IF t.strides[i] # expected_stride THEN FALSE
       ELSE ContigLoop(t, i - 1, expected_stride * t.shape[i])
  ELSE TRUE

\* is_contiguous that tests the innermost stride only.
InnerStrideOnly(t) ==
  IF t.ndim = 0 THEN TRUE ELSE t.strides[t.ndim - 1] = dtype_size(t.dtype)

is_contiguous(t) ==
  IF t.ndim = 0 THEN TRUE ELSE ContigLoop(t, t.ndim - 1, dtype_size(t.dtype))

valid(t) ==
  IF t.ndim < 0 \/ t.ndim > MAX_DIMS THEN FALSE
  ELSE IF ~device_available(t.device) THEN FALSE
  ELSE IF \E i \in Dims : i < t.ndim /\ t.shape[i] < 0 THEN FALSE
  ELSE IF t.data = Null /\ numel(t) > 0 /\ t.owns_data THEN FALSE
  ELSE IF t.ndim > 0 /\ (\E i \in Dims : i < t.ndim /\ t.shape[i] > 1 /\ t.strides[i] = 0) THEN FALSE
  ELSE TRUE

RECURSIVE NewNumelLoop(_, _, _, _)
NewNumelLoop(new_shape, new_ndim, i, n) ==
  IF i < new_ndim THEN NewNumelLoop(new_shape, new_ndim, i + 1, n * new_shape[i]) ELSE n

can_reshape(t, new_shape, new_ndim) ==
  IF new_ndim < 0 \/ new_ndim > MAX_DIMS THEN FALSE
  ELSE IF ~is_contiguous(t) THEN FALSE
  ELSE IF \E i \in 0 .. (new_ndim - 1) : new_shape[i] < 0 THEN FALSE
  ELSE NewNumelLoop(new_shape, new_ndim, 0, 1) = numel(t)

\* can_slice without the upper-bound test.
CanSliceNoEnd(t, dim, start, end) ==
  IF dim < 0 \/ dim >= t.ndim THEN FALSE
  ELSE IF start < 0 \/ end < start THEN FALSE
  ELSE TRUE

can_slice(t, dim, start, end) ==
  IF dim < 0 \/ dim >= t.ndim THEN FALSE
  ELSE IF start < 0 \/ end < start THEN FALSE
  ELSE IF end > t.shape[dim] THEN FALSE
  ELSE TRUE

reshape(t, new_shape, new_ndim) ==
  LET t1 == [t EXCEPT !.ndim = new_ndim, !.owns_data = FALSE,
                      !.shape = CopyPrefix(t.shape, new_shape, new_ndim)]
  IN IF is_contiguous(t)
     THEN [t1 EXCEPT !.strides = calc_contiguous_strides(new_shape, new_ndim, t.dtype, t1.strides)]
     ELSE t1

Swap(arr, i, j) == [arr EXCEPT ![i] = arr[j], ![j] = arr[i]]

\* transpose that swaps the extents and leaves the strides.
TransposeShapeOnly(t) ==
  IF t.ndim < 2 THEN t
  ELSE [t EXCEPT !.owns_data = FALSE,
                 !.shape = Swap(t.shape, t.ndim - 1, t.ndim - 2)]

transpose(t) ==
  IF t.ndim < 2 THEN t
  ELSE [t EXCEPT !.owns_data = FALSE,
                 !.shape = Swap(t.shape, t.ndim - 1, t.ndim - 2),
                 !.strides = Swap(t.strides, t.ndim - 1, t.ndim - 2)]

\* slice without the shift of the data pointer.
SliceNoShift(t, dim, start, end) ==
  [t EXCEPT !.owns_data = FALSE,
            !.shape = [t.shape EXCEPT ![dim] = end - start]]

slice(t, dim, start, end) ==
  [t EXCEPT !.owns_data = FALSE,
            !.data = PtrAdd(t.data, start * t.strides[dim]),
            !.shape = [t.shape EXCEPT ![dim] = end - start]]

view_like(t) == [t EXCEPT !.owns_data = FALSE]

(***************************************************************************)
(* reshape.hpp: squeeze, unsqueeze, permute, expand                        *)
(***************************************************************************)
RECURSIVE SqueezeLoop(_, _, _, _)
SqueezeLoop(input, out, i, new_ndim) ==
  IF i < input.ndim
  THEN IF input.shape[i] # 1
       THEN SqueezeLoop(input,
                        [out EXCEPT !.shape[new_ndim] = input.shape[i],
                                    !.strides[new_ndim] = input.strides[i]],
                        i + 1, new_ndim + 1)
       ELSE SqueezeLoop(input, out, i + 1, new_ndim)
  ELSE [out EXCEPT !.ndim = new_ndim]

\* squeeze that removes no dimension.
SqueezeNone(input) == [input EXCEPT !.owns_data = FALSE]

squeeze(input) == SqueezeLoop(input, [input EXCEPT !.owns_data = FALSE], 0, 0)

squeeze_dim(input, dim) ==
  IF dim < 0 \/ dim >= input.ndim \/ input.shape[dim] # 1 THEN input
  ELSE [input EXCEPT
          !.owns_data = FALSE,
          !.shape = [i \in Dims |-> IF i >= dim /\ i < input.ndim - 1
                                      THEN input.shape[i + 1] ELSE input.shape[i]],
          !.strides = [i \in Dims |-> IF i >= dim /\ i < input.ndim - 1
                                        THEN input.strides[i + 1] ELSE input.strides[i]],
          !.ndim = input.ndim - 1]

unsqueeze(input, dim) ==
  IF dim < 0 \/ dim > input.ndim \/ input.ndim >= MAX_DIMS THEN input
  ELSE [input EXCEPT
          !.owns_data = FALSE,
          !.ndim = input.ndim + 1,
          !.shape = [i \in Dims |-> IF i = dim THEN 1
                                      ELSE IF i > dim /\ i <= input.ndim
                                      THEN input.shape[i - 1] ELSE input.shape[i]],
          !.strides = [i \in Dims |-> IF i = dim
                                        THEN (IF dim < input.ndim THEN input.strides[dim]
                                              ELSE dtype_size(input.dtype))
                                        ELSE IF i > dim /\ i <= input.ndim
                                        THEN input.strides[i - 1] ELSE input.strides[i]]]

permute(input, perm) ==
  [input EXCEPT
     !.owns_data = FALSE,
     !.shape = [i \in Dims |-> IF i < input.ndim THEN input.shape[perm[i]] ELSE input.shape[i]],
     !.strides = [i \in Dims |-> IF i < input.ndim THEN input.strides[perm[i]] ELSE input.strides[i]]]

\* expand copying the source stride on every source dimension.
ExpandKeepStrides(input, new_shape, new_ndim) ==
  [empty EXCEPT
     !.data = input.data,
     !.dtype = input.dtype,
     !.device = input.device,
     !.ndim = new_ndim,
     !.owns_data = FALSE,
     !.shape = [i \in Dims |-> IF i < new_ndim THEN new_shape[i] ELSE 0],
     !.strides = [i \in Dims |->
                    IF i < new_ndim /\ i - (new_ndim - input.ndim) >= 0
                    THEN input.strides[i - (new_ndim - input.ndim)]
                    ELSE 0]]

expand(input, new_shape, new_ndim) ==
  LET input_offset == new_ndim - input.ndim
  IN [empty EXCEPT
        !.data = input.data,
        !.dtype = input.dtype,
        !.device = input.device,
        !.ndim = new_ndim,
        !.owns_data = FALSE,
        !.shape = [i \in Dims |-> IF i < new_ndim THEN new_shape[i] ELSE 0],
        !.strides = [i \in Dims |->
                       IF i < new_ndim
                       THEN IF i - input_offset < 0 THEN 0
                            ELSE IF input.shape[i - input_offset] = 1 THEN 0
                            ELSE input.strides[i - input_offset]
                       ELSE 0]]

\* What an array element holds before anything was written to it.
Unwritten == 0 - 1

\* The loop of broadcast_shape from iteration i on; the run stops at the
\* first incompatible pair and leaves what it wrote so far.
RECURSIVE BroadcastLoop(_, _, _, _, _, _, _)
BroadcastLoop(a_shape, a_ndim, b_shape, b_ndim, out_shape, out_ndim, i) ==
  IF i < out_ndim
  THEN LET a_idx == a_ndim - 1 - i
           b_idx == b_ndim - 1 - i
           out_idx == out_ndim - 1 - i
           a_dim == IF a_idx >= 0 THEN a_shape[a_idx] ELSE 1
           b_dim == IF b_idx >= 0 THEN b_shape[b_idx] ELSE 1
           go(x) == BroadcastLoop(a_shape, a_ndim, b_shape, b_ndim,
                                  [out_shape EXCEPT ![out_idx] = x], out_ndim, i + 1)
       IN IF a_dim = b_dim THEN go(a_dim)
          ELSE IF a_dim = 1 THEN go(b_dim)
          ELSE IF b_dim = 1 THEN go(a_dim)
          ELSE [ok |-> FALSE, out_shape |-> out_shape, out_ndim |-> out_ndim]
  ELSE [ok |-> TRUE, out_shape |-> out_shape, out_ndim |-> out_ndim]

\* broadcast_shape reporting success whatever the loop found.
BroadcastNeverFails(a_shape, a_ndim, b_shape, b_ndim, out_shape) ==
  [BroadcastLoop(a_shape, a_ndim, b_shape, b_ndim, out_shape,
                 IF a_ndim > b_ndim THEN a_ndim ELSE b_ndim, 0) EXCEPT !.ok = TRUE]

broadcast_shape(a_shape, a_ndim, b_shape, b_ndim, out_shape) ==
  BroadcastLoop(a_shape, a_ndim, b_shape, b_ndim, out_shape,
                IF a_ndim > b_ndim THEN a_ndim ELSE b_ndim, 0)

can_broadcast(a_shape, a_ndim, b_shape, b_ndim) ==
  broadcast_shape(a_shape, a_ndim, b_shape, b_ndim, [i \in Dims |-> Unwritten]).ok

\* broadcastable_with that lets only an extent of 1 on the receiver's side
\* stretch.
RECURSIVE BroadcastableReceiverOnly(_, _, _)
BroadcastableReceiverOnly(self, other, i) ==
  LET max_ndim == IF self.ndim > other.ndim THEN self.ndim ELSE other.ndim
      idx_a == self.ndim - 1 - i
      idx_b == other.ndim - 1 - i
      dim_a == IF idx_a >= 0 THEN self.shape[idx_a] ELSE 1
      dim_b == IF idx_b >= 0 THEN other.shape[idx_b] ELSE 1
  IN IF i < max_ndim
     THEN IF dim_a # dim_b /\ dim_a # 1
          THEN FALSE
          ELSE BroadcastableReceiverOnly(self, other, i + 1)
     ELSE TRUE

\* The loop of Tensor::broadcastable_with from iteration i on: it returns
\* false at the first right-aligned pair of extents that differ with neither
\* being 1, and true when it runs out of dimensions.
RECURSIVE BroadcastableLoop(_, _, _)
BroadcastableLoop(self, other, i) ==
  LET max_ndim == IF self.ndim > other.ndim THEN self.ndim ELSE other.ndim
      idx_a == self.ndim - 1 - i
      idx_b == other.ndim - 1 - i
      dim_a == IF idx_a >= 0 THEN self.shape[idx_a] ELSE 1
      dim_b == IF idx_b >= 0 THEN other.shape[idx_b] ELSE 1
  IN IF i < max_ndim
     THEN IF dim_a # dim_b /\ dim_a # 1 /\ dim_b # 1
          THEN FALSE
          ELSE BroadcastableLoop(self, other, i + 1)
     ELSE TRUE

broadcastable_with(self, other) == BroadcastableLoop(self, other, 0)

(***************************************************************************)
(* Program state                                                           *)
(*   tensors              the Tensor values the caller holds               *)
(*   heap                 the platform heap behind posix_memalign / free   *)
(*   global_allocator_ptr detail::global_allocator_ptr()                   *)
(*   aborted              the process was terminated by the platform       *)
(*   last                 the call that produced this state                *)
(*   kernel               the last kernel call: the element addresses it   *)
(*                        read and wrote, and the value it returned        *)
(*   call                 the last call of a function that touches neither *)
(*                        tensors nor memory: its arguments and results    *)
(***************************************************************************)
VARIABLES tensors, heap, global_allocator_ptr, aborted, last, kernel, call

vars == <<tensors, heap, global_allocator_ptr, aborted, last, kernel, call>>

Allocators == {"system", "custom"}

\* last: the call, the Tensor it was made on, the byte count it asked mem_alloc
\* for (-1: none), the allocator entry points it reached and the pointer it
\* handed to the platform free.
Did(op, src, bytes, calls, freed) ==
  [op |-> op, src |-> src, bytes |-> bytes, calls |-> calls, freed |-> freed]

\* One byte of memory: byte k of a stored value v, byte k of caller memory,
\* or an indeterminate byte.
Cell(kind, v, k) == [kind |-> kind, v |-> v, k |-> k]
Indet == Cell("indet", 0, 0)
IndetBytes(size) == [k \in 1 .. size |-> Indet]

NoCall == [fn |-> "none"]

NoKernel == [op |-> "none", arg |-> <<>>, before |-> <<>>, reads |-> {}, writes |-> {}, ret |-> 0]

Init ==
  /\ tensors = [i \in Slots |-> empty]
  /\ heap = [b \in BufIds |-> [state |-> "unused", size |-> 0, cells |-> <<>>]]
  /\ global_allocator_ptr = "system"
  /\ aborted = FALSE
  /\ last = Did("init", "t", 0 - 1, {}, Null)
  /\ kernel = NoKernel
  /\ call = NoCall

(***************************************************************************)
(* memory.hpp: mem_alloc / mem_free over the platform heap                 *)
(***************************************************************************)
Unused == {b \in BufIds : heap[b].state = "unused"}
MinUnused == {b \in Unused : \A c \in Unused : b <= c}

\* The addresses posix_memalign may hand out: a fresh block or a released one.
Reusable == MinUnused \cup {b \in BufIds : heap[b].state = "freed"}

\* mem_alloc that asks the platform whatever the device.
MemAllocAnyDevice(size, alignment, device) ==
  IF size = 0 THEN {Null} ELSE {Null} \cup {Ptr(b, 0) : b \in Reusable}

\* Outcomes of mem_alloc(size, alignment, device): the returned pointer.
mem_alloc(size, alignment, device) ==
  IF size = 0 THEN {Null}
  ELSE IF device # "CPU" THEN {Null}
  ELSE {Null} \cup {Ptr(b, 0) : b \in Reusable}

\* A call into an allocator: through the platform's C library, or through an
\* Allocator object.
Call(via, fn) == [via |-> via, fn |-> fn]

\* Entry points a mem_alloc call reaches.
mem_alloc_calls(size, device) ==
  IF size = 0 \/ device # "CPU" THEN {} ELSE {Call("platform", "posix_memalign")}

\* The heap once mem_alloc returned p: the block's bytes are indeterminate.
HeapAfterAlloc(p, size) ==
  IF p = Null THEN heap
  ELSE [heap EXCEPT ![p.buf] = [state |-> "live", size |-> size, cells |-> IndetBytes(size)]]

\* mem_free that never reaches the platform.
NoFreeCalls(ptr, device) == {}

\* mem_free(ptr, device) reaches the platform free only for a non-null CPU pointer.
mem_free_calls(ptr, device) ==
  IF ptr = Null THEN {} ELSE IF device # "CPU" THEN {} ELSE {Call("platform", "free")}

\* Outcomes of SystemAllocator::alloc: the returned pointer.
SystemAllocatorAlloc(size, alignment, device) ==
  IF size = 0 THEN {Null}
  ELSE IF device # "CPU" THEN {Null}
  ELSE {Null} \cup {Ptr(b, 0) : b \in Reusable}

\* SystemAllocator::free reaches the platform free only for a non-null CPU
\* pointer.
SystemAllocatorFreeCalls(ptr, device) ==
  IF ptr = Null THEN {} ELSE IF device # "CPU" THEN {} ELSE {Call("platform", "free")}

IsLiveBase(ptr) ==
  /\ ptr.buf \in BufIds
  /\ ptr.off = 0
  /\ heap[ptr.buf].state = "live"

\* Outcomes of mem_free(ptr, device): <<heap, aborted>>.  free() of anything
\* but the base of a live block is undefined: the platform may abort the
\* process or carry on.
mem_free(ptr, device) ==
  IF mem_free_calls(ptr, device) = {} THEN {<<heap, FALSE>>}
  ELSE IF IsLiveBase(ptr)
  THEN {<<[heap EXCEPT ![ptr.buf] = [state |-> "freed", size |-> 0, cells |-> <<>>]], FALSE>>}
  ELSE {<<heap, FALSE>>, <<heap, TRUE>>}

\* [ptr, ptr + size) lies in a live heap block of h.
InLive(h, ptr, size) ==
  /\ ptr.buf \in BufIds
  /\ h[ptr.buf].state = "live"
  /\ ptr.off >= 0
  /\ ptr.off + size <= h[ptr.buf].size

\* std::memcpy(dst, bytes, n) into the heap h: outcomes <<heap, aborted>>.
\* A store outside every live block is undefined.
Store(h, dst, bytes) ==
  IF Len(bytes) = 0 THEN {<<h, FALSE>>}
  ELSE IF InLive(h, dst, Len(bytes))
  THEN {<<[h EXCEPT ![dst.buf].cells =
              [k \in 1 .. h[dst.buf].size |->
                 IF k > dst.off /\ k <= dst.off + Len(bytes)
                 THEN bytes[k - dst.off] ELSE h[dst.buf].cells[k]]], FALSE>>}
  ELSE IF dst.buf = ExtBuf THEN {<<h, FALSE>>}
  ELSE {<<h, FALSE>>, <<h, TRUE>>}

\* The bytes a read of [src, src + size) can see; {} when the read is
\* undefined (null, released or out-of-block memory).
Load(h, src, size) ==
  IF InLive(h, src, size) THEN {[k \in 1 .. size |-> h[src.buf].cells[src.off + k]]}
  ELSE IF src.buf = ExtBuf THEN {[k \in 1 .. size |-> Cell("ext", 0, src.off + k - 1)]}
  ELSE {}

\* mem_copy_cpu(dst, src, size): a byte copy; outcomes <<heap, aborted>>.
mem_copy_cpu(h, dst, src, size) ==
  IF Load(h, src, size) = {}
  THEN Store(h, dst, IndetBytes(size)) \cup {<<h, TRUE>>}
  ELSE UNION {Store(h, dst, bytes) : bytes \in Load(h, src, size)}

(***************************************************************************)
(* scalar.hpp: a dtype tag and the bytes of the value union                *)
(***************************************************************************)
\* The union is as wide as its widest members (double, int64_t, uint64_t).
ValueBytes == dtype_size("F64")

\* Scalar(v) for a C++ value v of the element type dtype: the bytes of the
\* initialised member hold v, the bytes past it are indeterminate.
Scalar(dtype, v) ==
  [dtype |-> dtype,
   value |-> [k \in 1 .. ValueBytes |->
                IF k <= dtype_size(dtype) THEN Cell("val", v, k - 1) ELSE Indet]]

\* Scalar(): value{.f32 = 0.0f}, dtype F32.
DefaultScalar == Scalar("F32", 0)

\* Scalar s; s.value.f16_bits = bits; s.dtype = dtype.
FromBits(dtype, bits) ==
  [dtype |-> dtype,
   value |-> [k \in 1 .. ValueBytes |->
                IF k <= dtype_size("U16") THEN Cell("val", bits, k - 1)
                ELSE DefaultScalar.value[k]]]

from_f16_bits(bits) == FromBits("F16", bits)

from_bf16_bits(bits) == FromBits("BF16", bits)

\* Scalar::to_bytes: the first dtype_size(dtype) bytes of the value.
to_bytes(s) == SubSeq(s.value, 1, dtype_size(s.dtype))

\* from_bytes that copies a float's width whatever the dtype.
FromBytesFloatWidth(src, dt) ==
  [dtype |-> dt,
   value |-> [k \in 1 .. ValueBytes |->
                IF k <= dtype_size("F32") /\ k <= Len(src) THEN src[k]
                ELSE DefaultScalar.value[k]]]

\* Scalar::from_bytes(src, dt): Scalar s; s.dtype = dt; then dtype_size(dt)
\* bytes of src copied over the start of s.value.  src is the bytes read.
from_bytes(src, dt) ==
  [dtype |-> dt,
   value |-> [k \in 1 .. ValueBytes |->
                IF k <= dtype_size(dt) THEN src[k] ELSE DefaultScalar.value[k]]]

(***************************************************************************)
(* tensor.hpp / scalar.hpp: factories                                      *)
(***************************************************************************)
\* Tensor::alloc, given the pointer p that its mem_alloc call returned.
alloc(shape_ptr, ndim, dtype, device, p) ==
  [empty EXCEPT
     !.dtype = dtype,
     !.device = device,
     !.ndim = ndim,
     !.shape = CopyPrefix(ZeroArr, shape_ptr, ndim),
     !.strides = calc_contiguous_strides(shape_ptr, ndim, dtype, ZeroArr),
     !.data = p,
     !.owns_data = (p # Null)]

view(data_ptr, shape_ptr, strides_ptr, ndim, dtype, device) ==
  [empty EXCEPT
     !.data = data_ptr,
     !.dtype = dtype,
     !.device = device,
     !.ndim = ndim,
     !.owns_data = FALSE,
     !.shape = CopyPrefix(ZeroArr, shape_ptr, ndim),
     !.strides = CopyPrefix(ZeroArr, strides_ptr, ndim)]

wrap(external, shape_ptr, ndim, dtype, device) ==
  [empty EXCEPT
     !.data = external,
     !.dtype = dtype,
     !.device = device,
     !.ndim = ndim,
     !.owns_data = FALSE,
     !.shape = CopyPrefix(ZeroArr, shape_ptr, ndim),
     !.strides = calc_contiguous_strides(shape_ptr, ndim, dtype, ZeroArr)]

\* Tensor::from_scalar, given the pointer p that its mem_alloc call returned.
from_scalar(s_dtype, device, p) ==
  [empty EXCEPT
     !.dtype = s_dtype,
     !.device = device,
     !.ndim = 0,
     !.data = p,
     !.owns_data = (p # Null)]

(***************************************************************************)
(* Operations.  The caller creates into t and derives into v.              *)
(***************************************************************************)
Put(op, src, dst, t, bytes, calls) ==
  /\ ~aborted
  /\ tensors' = [tensors EXCEPT ![dst] = t]
  /\ last' = Did(op, src, bytes, calls, Null)
  /\ UNCHANGED <<global_allocator_ptr, kernel, call>>

Alloc(sa, dtype, device) ==
  LET bytes == calc_tensor_bytes(sa.sh, sa.nd, dtype)
  IN \E p \in mem_alloc(bytes, dtype_alignment(dtype), device) :
       /\ heap' = HeapAfterAlloc(p, bytes)
       /\ aborted' = aborted
       /\ Put("alloc", "t", "t", alloc(sa.sh, sa.nd, dtype, device, p),
              bytes, mem_alloc_calls(bytes, device))

View(data_ptr, sa, strides_ptr, dtype, device) ==
  /\ Put("view", "t", "t", view(data_ptr, sa.sh, strides_ptr, sa.nd, dtype, device), 0 - 1, {})
  /\ UNCHANGED <<heap, aborted>>

Wrap(external, sa, dtype, device) ==
  /\ Put("wrap", "t", "t", wrap(external, sa.sh, sa.nd, dtype, device), 0 - 1, {})
  /\ UNCHANGED <<heap, aborted>>

\* Tensor::from_scalar(s, device); s.to_bytes(t.data) when the buffer is there.
FromScalar(s, device) ==
  LET bytes == dtype_size(s.dtype)
  IN \E p \in mem_alloc(bytes, dtype_alignment(s.dtype), device) :
       /\ \E out \in (IF p # Null THEN Store(HeapAfterAlloc(p, bytes), p, to_bytes(s))
                       ELSE {<<heap, FALSE>>}) :
            /\ heap' = out[1]
            /\ aborted' = out[2]
       /\ Put("from_scalar", "t", "t", from_scalar(s.dtype, device, p),
              bytes, mem_alloc_calls(bytes, device))

\* Tensor::clone: alloc(shape.data(), ndim, dtype, device), then a copy of
\* nbytes() bytes when both buffers are there.
CloneAs(op, src, dst) ==
  LET t == tensors[src]
      bytes == calc_tensor_bytes(t.shape, t.ndim, t.dtype)
  IN \E p \in mem_alloc(bytes, dtype_alignment(t.dtype), t.device) :
       /\ \E out \in (IF p # Null /\ t.data # Null
                       THEN mem_copy_cpu(HeapAfterAlloc(p, bytes), p, t.data, nbytes(t))
                       ELSE {<<HeapAfterAlloc(p, bytes), FALSE>>}) :
            /\ heap' = out[1]
            /\ aborted' = out[2]
       /\ Put(op, src, dst, alloc(t.shape, t.ndim, t.dtype, t.device, p),
              bytes, mem_alloc_calls(bytes, t.device))

\* v = tensors[src].clone()
CloneInto(op, src) == CloneAs(op, src, "v")

Clone(src) == CloneInto("clone", src)

To(src, target_device) ==
  IF tensors[src].device = target_device
  THEN CloneInto("to", src)
  ELSE IF tensors[src].device # "CPU" \/ target_device # "CPU"
  THEN /\ Put("to", src, "v", empty, 0 - 1, {})
       /\ UNCHANGED <<heap, aborted>>
  ELSE CloneInto("to", src)

\* A view derivation: metadata only.
Derived(op, src, t) ==
  /\ Put(op, src, "v", t, 0 - 1, {})
  /\ UNCHANGED <<heap, aborted>>

Reshape(src, sa) == Derived("reshape", src, reshape(tensors[src], sa.sh, sa.nd))

Transpose(src) == Derived("transpose", src, transpose(tensors[src]))

Slice(src, dim, start, end) == Derived("slice", src, slice(tensors[src], dim, start, end))

ViewLike(src) == Derived("view_like", src, view_like(tensors[src]))

Squeeze(src) == Derived("squeeze", src, squeeze(tensors[src]))

SqueezeDim(src, dim) == Derived("squeeze_dim", src, squeeze_dim(tensors[src], dim))

Unsqueeze(src, dim) == Derived("unsqueeze", src, unsqueeze(tensors[src], dim))

Permute(src, perm) == Derived("permute", src, permute(tensors[src], perm))

Expand(src, sa) == Derived("expand", src, expand(tensors[src], sa.sh, sa.nd))

\* Tensor::free without the ownership test.
FreeAlways(i) ==
  LET t == tensors[i]
  IN /\ ~aborted
     /\ IF t.data # Null
        THEN \E out \in mem_free(t.data, t.device) :
               /\ heap' = out[1]
               /\ aborted' = out[2]
               /\ tensors' = IF out[2] THEN tensors
                             ELSE [tensors EXCEPT ![i] = [t EXCEPT !.data = Null, !.owns_data = FALSE]]
               /\ last' = Did("free", i, 0 - 1, mem_free_calls(t.data, t.device), t.data)
        ELSE /\ last' = Did("free", i, 0 - 1, {}, Null)
             /\ UNCHANGED <<tensors, heap, aborted>>
     /\ UNCHANGED <<global_allocator_ptr, kernel, call>>

\* Tensor::free
Free(i) ==
  LET t == tensors[i]
  IN /\ ~aborted
     /\ IF t.owns_data /\ t.data # Null
        THEN \E out \in mem_free(t.data, t.device) :
               /\ heap' = out[1]
               /\ aborted' = out[2]
               /\ tensors' = IF out[2] THEN tensors
                             ELSE [tensors EXCEPT ![i] = [t EXCEPT !.data = Null, !.owns_data = FALSE]]
               /\ last' = Did("free", i, 0 - 1, mem_free_calls(t.data, t.device), t.data)
        ELSE /\ last' = Did("free", i, 0 - 1, {}, Null)
             /\ UNCHANGED <<tensors, heap, aborted>>
     /\ UNCHANGED <<global_allocator_ptr, kernel, call>>

\* Tensor::reset: free(), then *this = empty()
Reset(i) ==
  LET t == tensors[i]
  IN /\ ~aborted
     /\ IF t.owns_data /\ t.data # Null
        THEN \E out \in mem_free(t.data, t.device) :
               /\ heap' = out[1]
               /\ aborted' = out[2]
               /\ tensors' = IF out[2] THEN tensors ELSE [tensors EXCEPT ![i] = empty]
               /\ last' = Did("reset", i, 0 - 1, mem_free_calls(t.data, t.device), t.data)
        ELSE /\ tensors' = [tensors EXCEPT ![i] = empty]
             /\ last' = Did("reset", i, 0 - 1, {}, Null)
             /\ UNCHANGED <<heap, aborted>>
     /\ UNCHANGED <<global_allocator_ptr, kernel, call>>

\* allocator.hpp: set_allocator; "null" is the null Allocator*.
SetAllocator(a) ==
  /\ ~aborted
  /\ global_allocator_ptr' = IF a # "null" THEN a ELSE global_allocator_ptr
  /\ last' = Did("set_allocator", "t", 0 - 1, {}, Null)
  /\ UNCHANGED <<tensors, heap, aborted, kernel, call>>

(***************************************************************************)
(* Documented preconditions of the view derivations (spec 4.3)             *)
(***************************************************************************)
IsPermutation(perm, ndim) ==
  /\ \A i \in 0 .. (ndim - 1) : perm[i] \in 0 .. (ndim - 1)
  /\ \A i, j \in 0 .. (ndim - 1) : perm[i] = perm[j] => i = j

\* The target only stretches extent-1 dimensions or adds leading ones.
IsBroadcastOf(t, new_shape, new_ndim) ==
  /\ new_ndim >= t.ndim
  /\ new_ndim <= MAX_DIMS
  /\ \A i \in 0 .. (new_ndim - 1) :
       LET k == i - (new_ndim - t.ndim)
       IN k >= 0 => (t.shape[k] = 1 \/ new_shape[i] = t.shape[k])

(***************************************************************************)
(* Inputs                                                                  *)
(***************************************************************************)
ModelDevices == {"CPU", "GPU"}
PtrArgs == {Null, Ptr(ExtBuf, 0)}
StrideArgs(sa, dtype) == [0 .. (sa.nd - 1) -> {0, dtype_size(dtype)}]
DimArgs == (0 - 1) .. MaxRank
PermArgs(ndim) == [0 .. (ndim - 1) -> 0 .. (MaxRank - 1)]
ScalarArgs == {Scalar(dtype, v) : dtype \in ModelDTypes, v \in 0 .. MaxValue}

\* The caller holds no tensor.
Fresh == tensors = [i \in Slots |-> empty]

\* The caller overwrites v only when v owns no buffer (it releases v first).
Spare == ~tensors["v"].owns_data

\* The shapes the lifecycle specification creates tensors with.
LifeShapes == {sa \in ShapeArgs : sa.nd <= 1 \/ (\A i \in 0 .. (sa.nd - 1) : sa.sh[i] = MaxExtent)}

\* The view derivations, called as documented: the caller checks can_reshape
\* and can_slice (spec 7), passes a true permutation and a broadcast target.
\* The rank guard on unsqueeze keeps the model's ranks within MaxRank.
Derive(src) ==
  \/ \E sa \in ShapeArgs : can_reshape(tensors[src], sa.sh, sa.nd) /\ Reshape(src, sa)
  \/ Transpose(src)
  \/ \E dim \in 0 .. (MaxRank - 1), start, end \in 0 .. MaxExtent :
       can_slice(tensors[src], dim, start, end) /\ Slice(src, dim, start, end)
  \/ ViewLike(src)
  \/ Squeeze(src)
  \/ \E dim \in DimArgs : SqueezeDim(src, dim)
  \/ \E dim \in DimArgs : tensors[src].ndim < MaxRank /\ Unsqueeze(src, dim)
  \/ \E perm \in PermArgs(tensors[src].ndim) :
       IsPermutation(perm, tensors[src].ndim) /\ Permute(src, perm)
  \/ \E sa \in ShapeArgs : IsBroadcastOf(tensors[src], sa.sh, sa.nd) /\ Expand(src, sa)

\* The lifecycle specification: the caller creates a tensor into t when it
\* holds none, derives v from t, and releases either.
Next ==
  \/ Fresh /\ \E sa \in LifeShapes, dtype \in ModelDTypes, device \in ModelDevices :
       Alloc(sa, dtype, device)
  \/ Fresh /\ \E sa \in LifeShapes, dtype \in ModelDTypes, device \in ModelDevices :
       \E data_ptr \in PtrArgs, strides_ptr \in StrideArgs(sa, dtype) :
         View(data_ptr, sa, strides_ptr, dtype, device)
  \/ Fresh /\ \E sa \in LifeShapes, dtype \in ModelDTypes, device \in ModelDevices :
       \E external \in PtrArgs : Wrap(external, sa, dtype, device)
  \/ Fresh /\ \E s \in ScalarArgs, device \in ModelDevices : FromScalar(s, device)
  \/ Spare /\ Clone("t")
  \/ Spare /\ \E device \in ModelDevices : To("t", device)
  \/ Spare /\ Derive("t")
  \/ \E i \in Slots : Free(i)
  \/ \E i \in Slots : Reset(i)
  \/ \E a \in Allocators \cup {"null"} : SetAllocator(a)

Spec == Init /\ [][Next]_vars

ViewOps == {"reshape", "transpose", "slice", "view_like", "squeeze",
            "squeeze_dim", "unsqueeze", "permute", "expand"}

\* The source of a chain's next link: t once it was created, v once it was
\* derived.
Chained(src) ==
  \/ last.op \in ViewOps
  \/ src = "t" /\ last.op \in {"alloc", "wrap"}

\* The view-algebra specification: one tensor created on the CPU into t, then
\* any chain of view derivations called as documented.
NextChecked ==
  \/ Fresh /\ \E sa \in ShapeArgs, dtype \in ModelDTypes : Alloc(sa, dtype, "CPU")
  \/ Fresh /\ \E sa \in ShapeArgs, dtype \in ModelDTypes :
       Wrap(Ptr(ExtBuf, 0), sa, dtype, "CPU")
  \/ \E src \in Slots : Chained(src) /\ Derive(src)

SpecChecked == Init /\ [][NextChecked]_vars

(***************************************************************************)
(* ops/elementwise.hpp, ops/reduce.hpp, ops/matmul.hpp: the dense kernels. *)
(* A kernel run r carries the heap it writes (h), the element addresses it *)
(* read and wrote, the value it returns (ret) and whether it did something *)
(* undefined (bad): an access outside every live block, a division by      *)
(* zero, an out-of-range array index.  g is what a read of bytes that hold *)
(* no stored value yields.  A float is an integer, NaN, one of the two     *)
(* infinities, or the quotient of two integers.                            *)
(***************************************************************************)
Run0(h) == [h |-> h, reads |-> {}, writes |-> {}, ret |-> 0, bad |-> FALSE]

HasValue(h, p, w) ==
  /\ InLive(h, p, w)
  /\ \A j \in 1 .. w :
       h[p.buf].cells[p.off + j] = Cell("val", h[p.buf].cells[p.off + 1].v, j - 1)

\* The value of the w-byte element at p.
Peek(h, p, w, g) == IF HasValue(h, p, w) THEN h[p.buf].cells[p.off + 1].v ELSE g

\* r after a read of the w-byte element at p.
Rd(r, p, w) == [r EXCEPT !.reads = @ \cup {p}, !.bad = @ \/ ~InLive(r.h, p, w)]

\* r after a write of x to the w-byte element at p.
Wr(r, p, w, x) ==
  [r EXCEPT
     !.writes = @ \cup {p},
     !.bad = @ \/ ~InLive(r.h, p, w),
     !.h = IF InLive(r.h, p, w)
           THEN [r.h EXCEPT ![p.buf].cells =
                   [k \in 1 .. r.h[p.buf].size |->
                      IF k > p.off /\ k <= p.off + w
                      THEN Cell("val", x, k - p.off - 1)
                      ELSE r.h[p.buf].cells[k]]]
           ELSE r.h]

\* static_cast<float*>(data)[i] and static_cast<int64_t*>(data)[i]
FloatW == dtype_size("F32")
Int64W == dtype_size("I64")
FloatAt(p, i) == PtrAdd(p, i * FloatW)
Int64At(p, i) == PtrAdd(p, i * Int64W)

\* float values and arithmetic
Inf == 1000000
NegInf == 0 - Inf
NaN == 0 - (2 * Inf)
FAdd(x, y) == IF x = NaN \/ y = NaN THEN NaN ELSE x + y
FSub(x, y) == IF x = NaN \/ y = NaN THEN NaN ELSE x - y
FMul(x, y) == IF x = NaN \/ y = NaN THEN NaN ELSE x * y
\* x / y is kept as a code of its two operands, apart from every other value.
QuotSpan == 1000
FDiv(x, y) ==
  IF x = NaN \/ y = NaN THEN NaN
  ELSE (4 * Inf) + ((x + QuotSpan) * (2 * QuotSpan)) + (y + QuotSpan)
FGt(x, y) == x # NaN /\ y # NaN /\ x > y

UnaryCases == {"NEG", "ABS", "EXP", "LOG", "SQRT", "SIN", "COS", "TANH", "RELU", "SIGMOID"}
BinaryCases == {"ADD", "SUB", "MUL", "DIV"}

UnaryF(op, x) ==
  CASE op = "NEG" -> FSub(0, x)
    [] op = "ABS" -> IF FGt(0, x) THEN FSub(0, x) ELSE x
    [] op = "RELU" -> IF FGt(x, 0) THEN x ELSE 0

BinaryF(op, x, y) ==
  CASE op = "ADD" -> FAdd(x, y)
    [] op = "SUB" -> FSub(x, y)
    [] op = "MUL" -> FMul(x, y)
    [] op = "DIV" -> FDiv(x, y)

RECURSIVE UnaryLoop(_, _, _, _, _, _, _)
UnaryLoop(r, in_ptr, out_ptr, op, i, n, g) ==
  IF i < n
  THEN LET x == Peek(r.h, FloatAt(in_ptr, i), FloatW, g)
           r1 == Rd(r, FloatAt(in_ptr, i), FloatW)
       IN UnaryLoop(Wr(r1, FloatAt(out_ptr, i), FloatW, UnaryF(op, x)),
                    in_ptr, out_ptr, op, i + 1, n, g)
  ELSE r

\* unary_op without the test of the element counts.
UnaryOpNoCountTest(h, input, output, op, g) ==
  IF input.device # "CPU" \/ output.device # "CPU" THEN Run0(h)
  ELSE IF input.dtype # "F32" \/ output.dtype # "F32" THEN Run0(h)
  ELSE IF input.data = Null \/ output.data = Null THEN Run0(h)
  ELSE IF op \in UnaryCases
  THEN UnaryLoop(Run0(h), input.data, output.data, op, 0, numel(input), g)
  ELSE Run0(h)

\* unary_op, release build (the debug build's assertions come after the
\* device test).
unary_op(h, input, output, op, g) ==
  IF input.device # "CPU" \/ output.device # "CPU" THEN Run0(h)
  ELSE IF input.dtype # "F32" \/ output.dtype # "F32" THEN Run0(h)
  ELSE IF input.data = Null \/ output.data = Null THEN Run0(h)
  ELSE IF numel(input) # numel(output) THEN Run0(h)
  ELSE IF op \in UnaryCases
  THEN UnaryLoop(Run0(h), input.data, output.data, op, 0, numel(input), g)
  ELSE Run0(h)

RECURSIVE BinaryLoop(_, _, _, _, _, _, _, _)
BinaryLoop(r, a_ptr, b_ptr, out_ptr, op, i, n, g) ==
  IF i < n
  THEN LET x == Peek(r.h, FloatAt(a_ptr, i), FloatW, g)
           y == Peek(r.h, FloatAt(b_ptr, i), FloatW, g)
           r1 == Rd(Rd(r, FloatAt(a_ptr, i), FloatW), FloatAt(b_ptr, i), FloatW)
       IN BinaryLoop(Wr(r1, FloatAt(out_ptr, i), FloatW, BinaryF(op, x, y)),
                     a_ptr, b_ptr, out_ptr, op, i + 1, n, g)
  ELSE r

\* for (i < n) out_ptr[i] = in_ptr[i] op s;
RECURSIVE ScalarLoop(_, _, _, _, _, _, _, _)
ScalarLoop(r, in_ptr, s, out_ptr, op, i, n, g) ==
  IF i < n
  THEN LET x == Peek(r.h, FloatAt(in_ptr, i), FloatW, g)
           r1 == Rd(r, FloatAt(in_ptr, i), FloatW)
       IN ScalarLoop(Wr(r1, FloatAt(out_ptr, i), FloatW, BinaryF(op, x, s)),
                     in_ptr, s, out_ptr, op, i + 1, n, g)
  ELSE r

\* binary_op without the branch for a one-element right operand.
BinaryOpSameCountOnly(h, a, b, output, op, g) ==
  IF a.device # "CPU" \/ b.device # "CPU" \/ output.device # "CPU" THEN Run0(h)
  ELSE IF a.dtype # "F32" \/ b.dtype # "F32" THEN Run0(h)
  ELSE IF numel(a) = numel(b) /\ op \in BinaryCases
  THEN BinaryLoop(Run0(h), a.data, b.data, output.data, op, 0, numel(output), g)
  ELSE Run0(h)

binary_op(h, a, b, output, op, g) ==
  IF a.device # "CPU" \/ b.device # "CPU" \/ output.device # "CPU" THEN Run0(h)
  ELSE IF a.dtype # "F32" \/ b.dtype # "F32" THEN Run0(h)
  ELSE IF numel(a) = numel(b)
  THEN IF op \in BinaryCases
       THEN BinaryLoop(Run0(h), a.data, b.data, output.data, op, 0, numel(output), g)
       ELSE Run0(h)
  ELSE IF numel(b) = 1
  THEN LET b_val == Peek(h, FloatAt(b.data, 0), FloatW, g)
           r1 == Rd(Run0(h), FloatAt(b.data, 0), FloatW)
       IN IF op \in BinaryCases
          THEN ScalarLoop(r1, a.data, b_val, output.data, op, 0, numel(output), g)
          ELSE r1
  ELSE Run0(h)

\* scalar_op; s is scalar.to_f32().
scalar_op(h, input, s, output, op, g) ==
  IF input.device # "CPU" \/ output.device # "CPU" THEN Run0(h)
  ELSE IF input.dtype # "F32" THEN Run0(h)
  ELSE IF op \in BinaryCases
  THEN ScalarLoop(Run0(h), input.data, s, output.data, op, 0, numel(input), g)
  ELSE Run0(h)

\* sum += a_ptr[m * K + k] * b_ptr[k * N + n], accumulated in r.ret
RECURSIVE GemmDot(_, _, _, _, _, _, _, _, _)
GemmDot(r, a_ptr, b_ptr, m, n, K, N, k, g) ==
  IF k < K
  THEN LET pa == FloatAt(a_ptr, m * K + k)
           pb == FloatAt(b_ptr, k * N + n)
           r1 == Rd(Rd(r, pa, FloatW), pb, FloatW)
       IN GemmDot([r1 EXCEPT !.ret = FAdd(@, FMul(Peek(r.h, pa, FloatW, g), Peek(r.h, pb, FloatW, g)))],
                  a_ptr, b_ptr, m, n, K, N, k + 1, g)
  ELSE r

\* The cell update of gemm without the beta term.
GemmCellNoBeta(r, a_ptr, b_ptr, c_ptr, m, n, K, N, alpha, beta, g) ==
  LET r1 == GemmDot([r EXCEPT !.ret = 0], a_ptr, b_ptr, m, n, K, N, 0, g)
      pc == FloatAt(c_ptr, m * N + n)
  IN Wr(Rd(r1, pc, FloatW), pc, FloatW, FMul(alpha, r1.ret))

\* c_ptr[m * N + n] = alpha * sum + beta * c_ptr[m * N + n]
GemmCell(r, a_ptr, b_ptr, c_ptr, m, n, K, N, alpha, beta, g) ==
  LET r1 == GemmDot([r EXCEPT !.ret = 0], a_ptr, b_ptr, m, n, K, N, 0, g)
      pc == FloatAt(c_ptr, m * N + n)
      c_old == Peek(r1.h, pc, FloatW, g)
  IN Wr(Rd(r1, pc, FloatW), pc, FloatW, FAdd(FMul(alpha, r1.ret), FMul(beta, c_old)))

\* The m and n loops, j = m * N + n.
RECURSIVE GemmLoop(_, _, _, _, _, _, _, _, _, _, _)
GemmLoop(r, a_ptr, b_ptr, c_ptr, j, M, K, N, alpha, beta, g) ==
  IF j < M * N
  THEN GemmLoop(GemmCell(r, a_ptr, b_ptr, c_ptr, j \div N, j % N, K, N, alpha, beta, g),
                a_ptr, b_ptr, c_ptr, j + 1, M, K, N, alpha, beta, g)
  ELSE [r EXCEPT !.ret = 0]

\* gemm without the test of the shapes' agreement.
GemmNoShapeTest(h, A, B, C, alpha, beta, g) ==
  IF A.device # "CPU" \/ B.device # "CPU" \/ C.device # "CPU" THEN Run0(h)
  ELSE IF A.ndim # 2 \/ B.ndim # 2 \/ C.ndim # 2 THEN Run0(h)
  ELSE IF A.dtype # "F32" \/ B.dtype # "F32" \/ C.dtype # "F32" THEN Run0(h)
  ELSE GemmLoop(Run0(h), A.data, B.data, C.data, 0, A.shape[0], A.shape[1], B.shape[1],
                alpha, beta, g)

gemm(h, A, B, C, alpha, beta, g) ==
  IF A.device # "CPU" \/ B.device # "CPU" \/ C.device # "CPU" THEN Run0(h)
  ELSE IF A.ndim # 2 \/ B.ndim # 2 \/ C.ndim # 2 THEN Run0(h)
  ELSE IF A.dtype # "F32" \/ B.dtype # "F32" \/ C.dtype # "F32" THEN Run0(h)
  ELSE IF B.shape[0] # A.shape[1] \/ C.shape[0] # A.shape[0] \/ C.shape[1] # B.shape[1]
  THEN Run0(h)
  ELSE GemmLoop(Run0(h), A.data, B.data, C.data, 0, A.shape[0], A.shape[1], B.shape[1],
                alpha, beta, g)

matmul(h, A, B, C, g) == gemm(h, A, B, C, 1, 0, g)

ReduceCases == {"SUM", "MAX", "MIN", "MEAN", "PROD"}

\* One step of a reduction's loop.
ReduceF(op, acc, x) ==
  CASE op \in {"SUM", "MEAN"} -> FAdd(acc, x)
    [] op = "PROD" -> FMul(acc, x)
    [] op = "MAX" -> IF FGt(x, acc) THEN x ELSE acc
    [] op = "MIN" -> IF FGt(acc, x) THEN x ELSE acc

ReduceStart(op) ==
  CASE op \in {"SUM", "MEAN"} -> 0
    [] op = "PROD" -> 1
    [] op = "MAX" -> NegInf
    [] op = "MIN" -> Inf

\* The value a reduction over n elements hands back.
ReduceEnd(op, acc, n) == IF op = "MEAN" THEN FDiv(acc, n) ELSE acc

\* The reduction of row[0 .. n - 1], left in r.ret.
RECURSIVE ReduceFold(_, _, _, _, _, _, _)
ReduceFold(r, row, i, n, op, acc, g) ==
  IF i < n
  THEN ReduceFold(Rd(r, FloatAt(row, i), FloatW), row, i + 1, n, op,
                  ReduceF(op, acc, Peek(r.h, FloatAt(row, i), FloatW, g)), g)
  ELSE [r EXCEPT !.ret = ReduceEnd(op, acc, n)]

\* reduce_all without the test for an empty tensor.
ReduceAllNoEmptyTest(h, input, op, g) ==
  IF input.dtype # "F32" THEN Run0(h)
  ELSE IF op \in ReduceCases
  THEN ReduceFold(Run0(h), input.data, 0, numel(input), op, ReduceStart(op), g)
  ELSE Run0(h)

reduce_all(h, input, op, g) ==
  IF input.dtype # "F32" THEN Run0(h)
  ELSE IF numel(input) = 0 THEN Run0(h)
  ELSE IF op \in ReduceCases
  THEN ReduceFold(Run0(h), input.data, 0, numel(input), op, ReduceStart(op), g)
  ELSE Run0(h)

RECURSIVE ReduceRows(_, _, _, _, _, _, _, _)
ReduceRows(r, in_ptr, out_ptr, outer, outer_size, reduction_size, op, g) ==
  IF outer < outer_size
  THEN LET r1 == IF op \in ReduceCases
                 THEN ReduceFold(r, FloatAt(in_ptr, outer * reduction_size), 0,
                                 reduction_size, op, ReduceStart(op), g)
                 ELSE r
       IN ReduceRows(IF op \in ReduceCases
                     THEN Wr(r1, FloatAt(out_ptr, outer), FloatW, r1.ret)
                     ELSE r1,
                     in_ptr, out_ptr, outer + 1, outer_size, reduction_size, op, g)
  ELSE [r EXCEPT !.ret = 0]

\* reduce_last_axis without the test of the output's dtype.
ReduceLastAxisAnyOutput(h, input, output, op, g) ==
  IF input.dtype # "F32" THEN Run0(h)
  ELSE IF input.ndim = 0 THEN Run0(h)
  ELSE IF input.shape[input.ndim - 1] = 0 THEN [Run0(h) EXCEPT !.bad = TRUE]
  ELSE ReduceRows(Run0(h), input.data, output.data, 0,
                  numel(input) \div input.shape[input.ndim - 1],
                  input.shape[input.ndim - 1], op, g)

\* reduce_last_axis; numel() / reduction_size with reduction_size = 0 is undefined.
reduce_last_axis(h, input, output, op, g) ==
  IF input.dtype # "F32" \/ output.dtype # "F32" THEN Run0(h)
  ELSE IF input.ndim = 0 THEN Run0(h)
  ELSE IF input.shape[input.ndim - 1] = 0 THEN [Run0(h) EXCEPT !.bad = TRUE]
  ELSE ReduceRows(Run0(h), input.data, output.data, 0,
                  numel(input) \div input.shape[input.ndim - 1],
                  input.shape[input.ndim - 1], op, g)

\* The index of the first maximum of row[0 .. n - 1], left in r.ret.
RECURSIVE ArgmaxFold(_, _, _, _, _, _, _)
ArgmaxFold(r, row, i, n, max_val, max_idx, g) ==
  IF i < n
  THEN LET x == Peek(r.h, FloatAt(row, i), FloatW, g)
           better == FGt(x, max_val)
       IN ArgmaxFold(Rd(r, FloatAt(row, i), FloatW), row, i + 1, n,
                     IF better THEN x ELSE max_val, IF better THEN i ELSE max_idx, g)
  ELSE [r EXCEPT !.ret = max_idx]

RECURSIVE ArgmaxRows(_, _, _, _, _, _, _)
ArgmaxRows(r, in_ptr, out_ptr, outer, outer_size, reduction_size, g) ==
  IF outer < outer_size
  THEN LET r1 == ArgmaxFold(r, FloatAt(in_ptr, outer * reduction_size), 0, reduction_size,
                            NegInf, 0, g)
       IN ArgmaxRows(Wr(r1, Int64At(out_ptr, outer), Int64W, r1.ret),
                     in_ptr, out_ptr, outer + 1, outer_size, reduction_size, g)
  ELSE [r EXCEPT !.ret = 0]

\* argmax; with ndim = 0 the extent read, shape[-1], is outside the array: g.
argmax(h, input, output, g) ==
  LET reduction_size == IF input.ndim = 0 THEN g ELSE input.shape[input.ndim - 1]
      r0 == [Run0(h) EXCEPT !.bad = (input.ndim = 0)]
  IN IF input.dtype # "F32" THEN Run0(h)
     ELSE IF output.dtype # "I64" /\ output.dtype # "I32" THEN Run0(h)
     ELSE IF reduction_size = 0 THEN [r0 EXCEPT !.bad = TRUE]
     ELSE ArgmaxRows(r0, input.data, output.data, 0, numel(input) \div reduction_size,
                     reduction_size, g)

(***************************************************************************)
(* Kernel calls on the operands a, b and out                               *)
(***************************************************************************)
\* The kernel, called with arg on the heap before, ran and left r; after
\* undefined behaviour the process may die.
Ran(name, arg, r) ==
  /\ ~aborted
  /\ kernel.op = "none"
  /\ heap' = r.h
  /\ kernel' = [op |-> name, arg |-> arg, before |-> heap,
                reads |-> r.reads, writes |-> r.writes, ret |-> r.ret]
  /\ aborted' \in (IF r.bad THEN {FALSE, TRUE} ELSE {FALSE})
  /\ last' = Did(name, "a", 0 - 1, {}, Null)
  /\ UNCHANGED <<tensors, global_allocator_ptr, call>>

UnaryOp(op, g) ==
  Ran("unary_op", <<op>>, unary_op(heap, tensors["a"], tensors["out"], op, g))

BinaryOp(op, g) ==
  Ran("binary_op", <<op>>, binary_op(heap, tensors["a"], tensors["b"], tensors["out"], op, g))

ScalarOp(s, op, g) ==
  Ran("scalar_op", <<op, s>>, scalar_op(heap, tensors["a"], s, tensors["out"], op, g))

Gemm(alpha, beta, g) ==
  Ran("gemm", <<alpha, beta>>,
      gemm(heap, tensors["a"], tensors["b"], tensors["out"], alpha, beta, g))

Matmul(g) ==
  Ran("matmul", <<>>, matmul(heap, tensors["a"], tensors["b"], tensors["out"], g))

ReduceAll(op, g) == Ran("reduce_all", <<op>>, reduce_all(heap, tensors["a"], op, g))

ReduceLastAxis(op, g) ==
  Ran("reduce_last_axis", <<op>>,
      reduce_last_axis(heap, tensors["a"], tensors["out"], op, g))

Argmax(g) == Ran("argmax", <<>>, argmax(heap, tensors["a"], tensors["out"], g))

\* The kernel specification: the caller holds three operands, a and b over
\* one block of stored floats and out over a block of its own, and makes one
\* kernel call.
KernelSlots == {"a", "b", "out"}
KernelShapes == {sa \in ShapeArgs : \A i \in 0 .. (sa.nd - 1) : sa.sh[i] >= 1}
InputShapes == KernelShapes \cup {sa \in ShapeArgs : sa.nd = 1}
ArenaBytes == calc_tensor_bytes([i \in Dims |-> MaxExtent], MaxRank, "F32")
ArenaFloats == ArenaBytes \div FloatW
Values == 0 .. MaxValue
Garbage == Values \cup {NaN}
ModelUnaryOps == {"NEG", "RELU", "ADD"}
ModelBinaryOps == BinaryCases \cup {"NEG"}
ModelReduceOps == ReduceCases

\* A live block holding the floats vals.
Floats(vals) ==
  [state |-> "live", size |-> Len(vals) * FloatW,
   cells |-> [j \in 1 .. (Len(vals) * FloatW) |->
                Cell("val", vals[((j - 1) \div FloatW) + 1], (j - 1) % FloatW)]]

\* A live block as the platform hands it out.
Fresh0(size) == [state |-> "live", size |-> size, cells |-> IndetBytes(size)]

\* The operands: all on the CPU or one of them on another device, all F32
\* or one of them of another dtype.
OperandDevices ==
  {d \in [KernelSlots -> ModelDevices] : Cardinality({i \in KernelSlots : d[i] # "CPU"}) <= 1}
OperandDTypes ==
  {[a |-> "F32", b |-> "F32", out |-> "F32"], [a |-> "U8", b |-> "F32", out |-> "F32"],
   [a |-> "F32", b |-> "U8", out |-> "F32"], [a |-> "F32", b |-> "F32", out |-> "I64"]}

\* a holds 1, 2, ..., b the floats after them; out holds the floats after
\* those or is fresh from the platform.
InitGrid ==
  /\ \E sa \in InputShapes, sb, sc \in KernelShapes, d \in OperandDevices, ty \in OperandDTypes :
       tensors = [i \in KernelSlots |->
                    CASE i = "a" -> wrap(Ptr(1, 0), sa.sh, sa.nd, ty.a, d.a)
                      [] i = "b" -> wrap(Ptr(1, ArenaBytes), sb.sh, sb.nd, ty.b, d.b)
                      [] i = "out" -> wrap(Ptr(MaxBufs, 0), sc.sh, sc.nd, ty.out, d.out)]
  /\ \E ob \in {Fresh0(ArenaBytes), Floats([k \in 1 .. ArenaFloats |-> 2 * ArenaFloats + k])} :
       heap = [b \in BufIds |->
                 IF b = 1 THEN Floats([k \in 1 .. (2 * ArenaFloats) |-> k])
                 ELSE IF b = MaxBufs THEN ob
                 ELSE [state |-> "unused", size |-> 0, cells |-> <<>>]]

\* test_relu_correctness: relu([-1, 0, 2]) into its own output, in place
\* (output aliasing input), and with a null input or output.
ReluFixtures ==
  {[a |-> <<3>>, b |-> <<3>>, out |-> <<3>>, av |-> <<0 - 1, 0, 2>>, bv |-> <<0 - 1, 0, 2>>,
    a_data |-> d[1], out_data |-> d[2], a_view |-> "plain"] :
     d \in {<<Ptr(1, 0), Ptr(MaxBufs, 0)>>, <<Ptr(1, 0), Ptr(1, 0)>>,
            <<Null, Ptr(MaxBufs, 0)>>, <<Ptr(1, 0), Null>>}}

\* A = transpose() of the 3 x 2 matrix [[1,2],[3,4],[5,6]] (a 2 x 3 view
\* with strides 4, 8), B the 3 x 2 matrix [[1,4],[2,5],[3,6]].
TransposedFixture ==
  [a |-> <<3, 2>>, b |-> <<3, 2>>, out |-> <<2, 2>>,
   av |-> <<1, 2, 3, 4, 5, 6>>, bv |-> <<1, 4, 2, 5, 3, 6>>,
   a_data |-> Ptr(1, 0), out_data |-> Ptr(MaxBufs, 0), a_view |-> "transpose"]

\* The operands of the repository's tests: TensorOpsTest.SetUp, the known
\* calculation of test_matmul_correctness, and test_reduce_correctness.
Fixtures ==
  {[a |-> <<4>>, b |-> <<4>>, out |-> <<4>>, av |-> <<1, 2, 3, 4>>, bv |-> <<5, 6, 7, 8>>,
    a_data |-> Ptr(1, 0), out_data |-> Ptr(MaxBufs, 0), a_view |-> "plain"],
   [a |-> <<2, 3>>, b |-> <<3, 2>>, out |-> <<2, 2>>,
    av |-> <<1, 2, 3, 4, 5, 6>>, bv |-> <<1, 4, 2, 5, 3, 6>>,
    a_data |-> Ptr(1, 0), out_data |-> Ptr(MaxBufs, 0), a_view |-> "plain"],
   [a |-> <<2, 3>>, b |-> <<2, 3>>, out |-> <<2>>,
    av |-> <<0, 1, 2, 3, 4, 5>>, bv |-> <<0, 1, 2, 3, 4, 5>>,
    a_data |-> Ptr(1, 0), out_data |-> Ptr(MaxBufs, 0), a_view |-> "plain"]}
    \cup ReluFixtures \cup {TransposedFixture}

ShapeOf(seq) == [i \in Dims |-> IF i < Len(seq) THEN seq[i + 1] ELSE 0]

InitFixture ==
  \E f \in Fixtures :
    /\ tensors = [i \in KernelSlots |->
                    CASE i = "a" ->
                           IF f.a_view = "transpose"
                           THEN transpose(wrap(f.a_data, ShapeOf(f.a), Len(f.a), "F32", "CPU"))
                           ELSE wrap(f.a_data, ShapeOf(f.a), Len(f.a), "F32", "CPU")
                      [] i = "b" -> wrap(Ptr(1, Len(f.av) * FloatW), ShapeOf(f.b), Len(f.b), "F32", "CPU")
                      [] i = "out" -> wrap(f.out_data, ShapeOf(f.out), Len(f.out), "F32", "CPU")]
    /\ heap = [b \in BufIds |->
                 IF b = 1 THEN Floats(f.av \o f.bv)
                 ELSE IF b = MaxBufs
                 THEN Fresh0(calc_tensor_bytes(ShapeOf(f.out), Len(f.out), "F32"))
                 ELSE [state |-> "unused", size |-> 0, cells |-> <<>>]]

InitKernel ==
  /\ InitGrid \/ InitFixture
  /\ global_allocator_ptr = "system"
  /\ aborted = FALSE
  /\ last = Did("init", "a", 0 - 1, {}, Null)
  /\ kernel = NoKernel
  /\ call = NoCall

NextKernel ==
  \/ \E op \in ModelUnaryOps, g \in Garbage : UnaryOp(op, g)
  \/ \E op \in ModelBinaryOps, g \in Garbage : BinaryOp(op, g)
  \/ \E s \in Values, op \in ModelBinaryOps, g \in Garbage : ScalarOp(s, op, g)
  \/ \E alpha, beta \in Values, g \in Garbage : Gemm(alpha, beta, g)
  \/ \E g \in Garbage : Matmul(g)
  \/ \E op \in ModelReduceOps, g \in Garbage : ReduceAll(op, g)
  \/ \E op \in ModelReduceOps, g \in Garbage : ReduceLastAxis(op, g)
  \/ \E g \in Garbage : Argmax(g)

SpecKernel == InitKernel /\ [][NextKernel]_vars

(***************************************************************************)
(* Scalars to rank-0 tensors and back                                      *)
(***************************************************************************)
\* Tensor::to_scalar: outcomes <<scalar, aborted>>.  from_bytes on released
\* or out-of-block memory is undefined.
to_scalar(h, t) ==
  IF t.ndim # 0 \/ t.data = Null THEN {<<DefaultScalar, FALSE>>}
  ELSE IF Load(h, t.data, dtype_size(t.dtype)) = {}
  THEN {<<from_bytes(IndetBytes(dtype_size(t.dtype)), t.dtype), FALSE>>,
        <<DefaultScalar, TRUE>>}
  ELSE {<<from_bytes(bytes, t.dtype), FALSE>> : bytes \in Load(h, t.data, dtype_size(t.dtype))}

\* The scalars the constructors make, one per element type and value.
Scalars ==
  {Scalar(dtype, v) : dtype \in DTypes \ {"F16", "BF16"}, v \in 0 .. MaxValue}
    \cup {from_f16_bits(bits) : bits \in 0 .. MaxValue}
    \cup {from_bf16_bits(bits) : bits \in 0 .. MaxValue}

\* The caller holds a scalar s and no tensor.
InitScalar ==
  /\ tensors = [i \in Slots |-> empty]
  /\ heap = [b \in BufIds |-> [state |-> "unused", size |-> 0, cells |-> <<>>]]
  /\ global_allocator_ptr = "system"
  /\ aborted = FALSE
  /\ last = Did("init", "t", 0 - 1, {}, Null)
  /\ kernel = NoKernel
  /\ \E s \in Scalars : call = [fn |-> "args", s |-> s]

\* r = tensors[i].to_scalar(); the caller keeps r, the tensor it read and the
\* operation that tensor came from.
ToScalar(i) ==
  /\ ~aborted
  /\ \E out \in to_scalar(heap, tensors[i]) :
       /\ call' = [fn |-> "to_scalar", s |-> call.s, t |-> tensors[i], op |-> last.op,
                   result |-> out[1]]
       /\ aborted' = out[2]
  /\ UNCHANGED <<tensors, heap, global_allocator_ptr, last, kernel>>

\* uint8_t buffer[8]; s.to_bytes(buffer); r = Scalar::from_bytes(buffer, dt)
ByteRoundtrip(dt) ==
  LET buffer == [k \in 1 .. ValueBytes |->
                   IF k <= Len(to_bytes(call.s)) THEN to_bytes(call.s)[k] ELSE Indet]
  IN /\ ~aborted
     /\ call' = [fn |-> "from_bytes", s |-> call.s, dt |-> dt, buffer |-> buffer,
                 result |-> from_bytes(buffer, dt)]
     /\ UNCHANGED <<tensors, heap, global_allocator_ptr, aborted, last, kernel>>

\* The scalar specification: the caller turns its scalar into a tensor, or
\* allocates one, reads scalars back and releases the tensor.
NextScalar ==
  \/ Fresh /\ \E device \in Devices : FromScalar(call.s, device)
  \/ Fresh /\ \E sa \in LifeShapes, dtype \in ModelDTypes, device \in Devices :
       Alloc(sa, dtype, device)
  \/ \E i \in Slots : ToScalar(i)
  \/ \E dt \in {call.s.dtype, "F32"} : ByteRoundtrip(dt)
  \/ Free("t")
  \/ Reset("t")

SpecScalar == InitScalar /\ [][NextScalar]_vars

(***************************************************************************)
(* Copies of views: a filled tensor, one view of it, a clone               *)
(***************************************************************************)
\* float* data = t.data; for (i = 0; i < numel; ++i) data[i] = i + 1;
FillFloats ==
  LET t == tensors["t"]
  IN /\ ~aborted
     /\ last.op = "alloc"
     /\ t.data # Null
     /\ heap' = [heap EXCEPT ![t.data.buf] = Floats([k \in 1 .. numel(t) |-> k])]
     /\ last' = Did("fill", "t", 0 - 1, {}, Null)
     /\ UNCHANGED <<tensors, global_allocator_ptr, aborted, kernel, call>>

\* The copy specification: the caller allocates and fills t, clones it into
\* v, or derives a view v of it and clones the view (into t).
NextClone ==
  \/ Fresh /\ \E sa \in KernelShapes : Alloc(sa, "F32", "CPU")
  \/ FillFloats
  \/ last.op = "fill" /\ Clone("t")
  \/ last.op = "fill" /\ Derive("t")
  \/ last.op \in ViewOps /\ CloneAs("clone", "v", "t")

SpecClone == Init /\ [][NextClone]_vars

(***************************************************************************)
(* Calls of the shape calculator on two shape arguments                    *)
(***************************************************************************)
BcRank == 2
BcExtent == 5
BcShapes ==
  UNION { { [nd |-> n, sh |-> f] : f \in [0 .. (n - 1) -> 0 .. BcExtent] } : n \in 0 .. BcRank }

\* The caller holds two shapes and an output array it has not written.
InitBroadcast ==
  /\ tensors = [i \in Slots |-> empty]
  /\ heap = [b \in BufIds |-> [state |-> "unused", size |-> 0, cells |-> <<>>]]
  /\ global_allocator_ptr = "system"
  /\ aborted = FALSE
  /\ last = Did("init", "t", 0 - 1, {}, Null)
  /\ kernel = NoKernel
  /\ \E sa, sb \in BcShapes : call = [fn |-> "args", a |-> sa, b |-> sb]

BroadcastShape ==
  /\ call.fn = "args"
  /\ LET r == broadcast_shape(call.a.sh, call.a.nd, call.b.sh, call.b.nd,
                              [i \in Dims |-> Unwritten])
     IN call' = [fn |-> "broadcast_shape", a |-> call.a, b |-> call.b,
                 ok |-> r.ok, out_shape |-> r.out_shape, out_ndim |-> r.out_ndim]
  /\ UNCHANGED <<tensors, heap, global_allocator_ptr, aborted, last, kernel>>

CanBroadcast ==
  /\ call.fn = "args"
  /\ call' = [fn |-> "can_broadcast", a |-> call.a, b |-> call.b,
              ok |-> can_broadcast(call.a.sh, call.a.nd, call.b.sh, call.b.nd)]
  /\ UNCHANGED <<tensors, heap, global_allocator_ptr, aborted, last, kernel>>

\* The shape and rank fields of a tensor that has the shape s.
Shaped(s) == [shape |-> s.sh, ndim |-> s.nd]

\* a.broadcastable_with(b) on two tensors that have the caller's shapes.
BroadcastableWith ==
  /\ call.fn = "args"
  /\ call' = [fn |-> "broadcastable_with", a |-> call.a, b |-> call.b,
              ok |-> broadcastable_with(Shaped(call.a), Shaped(call.b))]
  /\ UNCHANGED <<tensors, heap, global_allocator_ptr, aborted, last, kernel>>

NextBroadcast == BroadcastShape \/ CanBroadcast \/ BroadcastableWith

SpecBroadcast == InitBroadcast /\ [][NextBroadcast]_vars

(***************************************************************************)
(* Function signatures (ir::FunctionSig)                                   *)
(***************************************************************************)
MAX_FUNC_ARGS == 16
ArgSlots == 0 .. (MAX_FUNC_ARGS - 1)

\* An argument name is the ordinal of the call that passed it; NoName is the
\* null name of a default-constructed descriptor.
NoName == 0

ArgDesc(n, tensor, dt, out) ==
  [name |-> n, is_tensor |-> tensor, dtype |-> dt, is_output |-> out]

DefaultArgDesc == ArgDesc(NoName, TRUE, "F32", FALSE)

\* FunctionSig(): every slot default-constructed, both counters zero.
FunctionSig ==
  [args |-> [i \in ArgSlots |-> DefaultArgDesc], num_inputs |-> 0,
   num_outputs |-> 0, is_pure |-> TRUE]

total_args(sig) == sig.num_inputs + sig.num_outputs

add_input(sig, arg_name, is_tensor, dtype) ==
  IF sig.num_inputs + sig.num_outputs >= MAX_FUNC_ARGS
  THEN sig
  ELSE [sig EXCEPT !.args[sig.num_inputs] = ArgDesc(arg_name, is_tensor, dtype, FALSE),
                   !.num_inputs = sig.num_inputs + 1]

add_output(sig, arg_name, is_tensor, dtype) ==
  IF sig.num_inputs + sig.num_outputs >= MAX_FUNC_ARGS
  THEN sig
  ELSE LET idx == sig.num_inputs + sig.num_outputs
       IN [sig EXCEPT !.args[idx] = ArgDesc(arg_name, is_tensor, dtype, TRUE),
                      !.num_outputs = sig.num_outputs + 1]

\* The caller makes at most one call more than the array has slots.
MaxSigCalls == MAX_FUNC_ARGS + 1

\* What the caller passes in its k-th call.
SigArg(k) ==
  [name |-> k, is_tensor |-> (k % 2 = 1), dtype |-> IF k % 3 = 0 THEN "U8" ELSE "F32"]

\* A fresh signature; inputs and outputs list what the calls accepted so far
\* have passed, in call order.
InitSig ==
  /\ tensors = [i \in Slots |-> empty]
  /\ heap = [b \in BufIds |-> [state |-> "unused", size |-> 0, cells |-> <<>>]]
  /\ global_allocator_ptr = "system"
  /\ aborted = FALSE
  /\ last = [op |-> "none", src |-> "t", bytes |-> 0, calls |-> 0, freed |-> {}]
  /\ kernel = [op |-> "none"]
  /\ call = [fn |-> "FunctionSig", sig |-> FunctionSig, before |-> FunctionSig,
             calls |-> 0, inputs |-> <<>>, outputs |-> <<>>]

AddInput ==
  /\ call.fn \in {"FunctionSig", "add_input", "add_output"}
  /\ call.calls < MaxSigCalls
  /\ LET x == SigArg(call.calls + 1)
         accepted == total_args(call.sig) < MAX_FUNC_ARGS
     IN call' = [fn |-> "add_input",
                 sig |-> add_input(call.sig, x.name, x.is_tensor, x.dtype),
                 before |-> call.sig, calls |-> call.calls + 1,
                 inputs |-> IF accepted
                            THEN Append(call.inputs, ArgDesc(x.name, x.is_tensor, x.dtype, FALSE))
                            ELSE call.inputs,
                 outputs |-> call.outputs]
  /\ UNCHANGED <<tensors, heap, global_allocator_ptr, aborted, last, kernel>>

AddOutput ==
  /\ call.fn \in {"FunctionSig", "add_input", "add_output"}
  /\ call.calls < MaxSigCalls
  /\ LET x == SigArg(call.calls + 1)
         accepted == total_args(call.sig) < MAX_FUNC_ARGS
     IN call' = [fn |-> "add_output",
                 sig |-> add_output(call.sig, x.name, x.is_tensor, x.dtype),
                 before |-> call.sig, calls |-> call.calls + 1,
                 inputs |-> call.inputs,
                 outputs |-> IF accepted
                             THEN Append(call.outputs, ArgDesc(x.name, x.is_tensor, x.dtype, TRUE))
                             ELSE call.outputs]
  /\ UNCHANGED <<tensors, heap, global_allocator_ptr, aborted, last, kernel>>

NextSig == AddInput \/ AddOutput

SpecSig == InitSig /\ [][NextSig]_vars

(***************************************************************************)
(* Properties of the lifecycle specification (Spec)                        *)
(***************************************************************************)

\* C1: every view derivation (reshape, transpose, slice, view_like, squeeze,
\* squeeze_dim, unsqueeze, permute, expand), on any source and with any
\* argument, returns a tensor whose owns_data is false.
C1_ViewNeverOwns == last.op \in ViewOps => ~tensors["v"].owns_data

\* C2: in every reachable state at most one Tensor has owns_data = true for a
\* given buffer address.
C2_SingleOwner ==
  \A i, j \in Slots :
    (i # j /\ tensors[i].owns_data /\ tensors[j].owns_data)
      => tensors[i].data # tensors[j].data

\* C3: free() on a tensor that owns an allocated buffer hands that buffer to
\* the allocator's free exactly once and leaves data = null, owns_data =
\* false and every other field as it was; free() on a tensor whose data is
\* null makes no allocator call and changes no field.
C3_FreeReleasesOnce ==
  [][\A i \in Slots :
       (last'.op = "free" /\ last'.src = i) =>
         /\ (tensors[i].owns_data /\ IsLiveBase(tensors[i].data) /\ tensors[i].device = "CPU")
              => /\ last'.calls = {Call("platform", "free")}
                 /\ last'.freed = tensors[i].data
                 /\ heap'[tensors[i].data.buf].state = "freed"
                 /\ ~aborted'
                 /\ tensors' = [tensors EXCEPT ![i] =
                                  [tensors[i] EXCEPT !.data = Null, !.owns_data = FALSE]]
         /\ tensors[i].data = Null
              => /\ last'.calls = {}
                 /\ tensors' = tensors
                 /\ heap' = heap]_vars

C3_Witness ==
  /\ last.op = "free"
  /\ last.calls = {Call("platform", "free")}
  /\ last.freed.buf \in BufIds
  /\ heap[last.freed.buf].state = "freed"
  /\ tensors[last.src].data = Null
  /\ ~tensors[last.src].owns_data
  /\ tensors[last.src].ndim > 0

\* C4: free() on a tensor whose owns_data is false never calls the
\* allocator's free and leaves every field of every tensor and the heap
\* unchanged.
C4_FreeOfViewIsNoOp ==
  [][\A i \in Slots :
       (last'.op = "free" /\ last'.src = i /\ ~tensors[i].owns_data) =>
         /\ last'.calls = {}
         /\ tensors' = tensors
         /\ heap' = heap
         /\ aborted' = aborted]_vars

C4_Witness ==
  /\ last.op = "free"
  /\ last.calls = {}
  /\ ~tensors[last.src].owns_data
  /\ IsLiveBase(tensors[last.src].data)

\* C8: once set_allocator(X) bound a custom allocator X, a successful
\* Tensor::alloc calls X.alloc (once, for product of extents x element width
\* bytes) and free() on the owning tensor calls X.free.
C8_AllocThroughBoundAllocator ==
  global_allocator_ptr = "custom" =>
    /\ (last.op = "alloc" /\ tensors["t"].data # Null)
         => /\ last.calls = {Call(global_allocator_ptr, "alloc")}
            /\ last.bytes = nbytes(tensors["t"])
    /\ (last.op = "free" /\ last.freed # Null)
         => last.calls = {Call(global_allocator_ptr, "free")}

\* What the documentation says ops::expand returns for input x and target sa.
IsExpansion(e, x, sa) ==
  /\ e.data = x.data
  /\ e.dtype = x.dtype
  /\ e.device = x.device
  /\ ~e.owns_data
  /\ e.ndim = sa.nd
  /\ \A k \in 0 .. (sa.nd - 1) :
       /\ e.shape[k] = sa.sh[k]
       /\ e.strides[k] = (IF k < sa.nd - x.ndim THEN 0
                          ELSE IF x.shape[k - (sa.nd - x.ndim)] = 1 THEN 0
                          ELSE x.strides[k - (sa.nd - x.ndim)])

\* C13: for every input and every target shape of rank >= the input's,
\* ops::expand calls no allocator and returns a non-owning tensor with the
\* input's data address, dtype and device, the target's extents, stride 0
\* on every new leading dimension and on every dimension whose source
\* extent is 1, and the source stride on every other dimension.
C13_ExpandIsZeroStrideView ==
  /\ \A i \in Slots : \A sa \in ShapeArgs :
       sa.nd >= tensors[i].ndim => IsExpansion(expand(tensors[i], sa.sh, sa.nd), tensors[i], sa)
  /\ last.op = "expand" =>
       /\ last.calls = {}
       /\ \E sa \in ShapeArgs : IsExpansion(tensors["v"], tensors[last.src], sa)

C13_Witness ==
  /\ last.op = "expand"
  /\ tensors["t"].owns_data
  /\ tensors["t"].ndim = 1
  /\ tensors["t"].shape[0] = 1
  /\ tensors["t"].strides[0] > 0
  /\ tensors["v"].ndim = MaxRank
  /\ tensors["v"].shape[MaxRank - 1] = MaxExtent
  /\ tensors["v"].strides[MaxRank - 1] = 0
  /\ tensors["v"].data = tensors["t"].data

(***************************************************************************)
(* Properties of the view-algebra specification (SpecChecked)              *)
(***************************************************************************)
\* The multi-indices of t: idx[i] in [0, shape[i]) for every i < ndim.
Indices(t) ==
  {idx \in [0 .. (t.ndim - 1) -> 0 .. MaxExtent] : \A i \in 0 .. (t.ndim - 1) : idx[i] < t.shape[i]}

RECURSIVE Dot(_, _, _)
Dot(idx, strides, n) ==
  IF n = 0 THEN 0 ELSE idx[n - 1] * strides[n - 1] + Dot(idx, strides, n - 1)

\* data + sum of idx[i] * strides[i]
Address(t, idx) == PtrAdd(t.data, Dot(idx, t.strides, t.ndim))

\* t was returned by a successful Tensor::alloc and v was derived from it.
DerivedFromAlloc ==
  /\ tensors["t"].owns_data
  /\ IsLiveBase(tensors["t"].data)
  /\ last.op \in ViewOps

\* C5: after any chain of view derivations called within their
\* preconditions on a successfully allocated tensor, every element address
\* data + sum idx[i]*strides[i] of the result lies in the allocated block
\* [base, base + nbytes).
C5_ViewsStayInBuffer ==
  DerivedFromAlloc =>
    \A idx \in Indices(tensors["v"]) :
      LET a == Address(tensors["v"], idx)
      IN /\ a.buf = tensors["t"].data.buf
         /\ a.off >= 0
         /\ a.off + dtype_size(tensors["v"].dtype) <= heap[a.buf].size
         /\ heap[a.buf].size = nbytes(tensors["t"])

C5_Witness ==
  /\ DerivedFromAlloc
  /\ last.op = "expand"
  /\ tensors["v"].data.off > 0
  /\ tensors["v"].ndim = MaxRank
  /\ Cardinality(Indices(tensors["v"])) > 1

\* C6: every tensor made by Tensor::alloc or Tensor::wrap on the CPU with
\* non-negative extents, and every tensor derived from one by the view
\* operations, satisfies valid().
C6_AlwaysValid == \A i \in Slots : valid(tensors[i])

\* C9: calc_tensor_bytes returns element width x product of the extents
\* (the width alone for rank 0), and the strides calc_contiguous_strides
\* gives Tensor::alloc and Tensor::wrap make the tensor is_contiguous().
C9_BytesAndCanonicalStrides ==
  /\ last.op \in {"alloc", "wrap"} => is_contiguous(tensors["t"])
  /\ last.op = "alloc" =>
       /\ last.bytes = dtype_size(tensors["t"].dtype) * Cardinality(Indices(tensors["t"]))
       /\ tensors["t"].ndim = 0 => last.bytes = dtype_size(tensors["t"].dtype)

C9_Witness ==
  /\ last.op = "alloc"
  /\ tensors["t"].ndim = MaxRank
  /\ \A i \in 0 .. (MaxRank - 1) : tensors["t"].shape[i] = MaxExtent
  /\ tensors["t"].dtype = "F32"
  /\ tensors["t"].data # Null

\* x and y agree on rank, on extents and strides at the indices below the
\* rank, and on the data address.
SameLayout(x, y) ==
  /\ x.ndim = y.ndim
  /\ \A i \in 0 .. (x.ndim - 1) : x.shape[i] = y.shape[i] /\ x.strides[i] = y.strides[i]
  /\ x.data = y.data

\* C10: for a contiguous t and a shape s with can_reshape true,
\* t.reshape(s).reshape(shape of t) has the rank, extents and strides of t
\* (at the indices below the rank) and the same data address.
C10_ReshapeRoundTrip ==
  \A i \in Slots : \A sa \in ShapeArgs :
    LET x == tensors[i]
    IN (is_contiguous(x) /\ can_reshape(x, sa.sh, sa.nd))
         => SameLayout(reshape(reshape(x, sa.sh, sa.nd), x.shape, x.ndim), x)

C10_Witness ==
  /\ last.op = "reshape"
  /\ last.src = "v"
  /\ tensors["t"].ndim = MaxRank
  /\ tensors["t"].data # Null
  /\ Cardinality(Indices(tensors["t"])) > 1
  /\ SameLayout(tensors["v"], tensors["t"])

\* C11: for 0 <= dim < rank and 0 <= start <= end <= shape[dim],
\* t.slice(dim, start, end) has data = t.data + start * strides[dim],
\* shape[dim] = end - start, every other extent and every stride unchanged;
\* the element at index j of the slice along dim is the element at index
\* start + j of the source (index 0 is the source's index start).
C11_SliceShiftsAndShrinks ==
  \A i \in Slots : \A dim \in 0 .. (MaxRank - 1), start, end \in 0 .. MaxExtent :
    LET t == tensors[i]
        s == slice(t, dim, start, end)
    IN (dim < t.ndim /\ start <= end /\ end <= t.shape[dim])
         => /\ s.data = PtrAdd(t.data, start * t.strides[dim])
            /\ s.shape[dim] = end - start
            /\ \A k \in Dims \ {dim} : s.shape[k] = t.shape[k]
            /\ s.strides = t.strides
            /\ s.ndim = t.ndim
            /\ \A idx \in Indices(s) :
                 Address(s, idx) = Address(t, [idx EXCEPT ![dim] = @ + start])

C11_Witness ==
  /\ last.op = "slice"
  /\ last.src = "t"
  /\ tensors["t"].data # Null
  /\ \E dim \in 0 .. (MaxRank - 1), start, end \in 1 .. MaxExtent :
       /\ can_slice(tensors["t"], dim, start, end)
       /\ end > start
       /\ tensors["t"].strides[dim] > 0
       /\ tensors["v"] = slice(tensors["t"], dim, start, end)

(***************************************************************************)
(* Properties of the shape calculator (SpecBroadcast)                      *)
(***************************************************************************)
\* The extent of shape sa at position i counted from the trailing
\* dimension; an absent leading dimension counts as 1.
Aligned(sa, i) == IF sa.nd - 1 - i >= 0 THEN sa.sh[sa.nd - 1 - i] ELSE 1

MaxOf(x, y) == IF x > y THEN x ELSE y

\* C12: broadcast_shape returns true exactly when every right-aligned pair
\* of extents is equal or contains a 1; on success out_ndim is the larger
\* rank and each output extent is the common extent or the extent of the
\* operand that is not 1.  [3,1] with [1,4] gives [3,4]; [2,3] with [4,5]
\* fails.
C12_BroadcastShape ==
  call.fn = "broadcast_shape" =>
    LET n == MaxOf(call.a.nd, call.b.nd)
        x(i) == Aligned(call.a, i)
        y(i) == Aligned(call.b, i)
        compatible == \A i \in 0 .. (n - 1) : x(i) = y(i) \/ x(i) = 1 \/ y(i) = 1
    IN /\ call.ok = compatible
       /\ call.ok =>
            /\ call.out_ndim = n
            /\ \A i \in 0 .. (n - 1) :
                 call.out_shape[n - 1 - i] = (IF x(i) = 1 THEN y(i) ELSE x(i))
       /\ (call.a = [nd |-> 2, sh |-> (0 :> 3 @@ 1 :> 1)] /\ call.b = [nd |-> 2, sh |-> (0 :> 1 @@ 1 :> 4)])
            => (call.ok /\ call.out_ndim = 2 /\ call.out_shape[0] = 3 /\ call.out_shape[1] = 4)
       /\ (call.a = [nd |-> 2, sh |-> (0 :> 2 @@ 1 :> 3)] /\ call.b = [nd |-> 2, sh |-> (0 :> 4 @@ 1 :> 5)])
            => ~call.ok

C12_Witness ==
  /\ call.fn = "broadcast_shape"
  /\ call.a = [nd |-> 2, sh |-> (0 :> 3 @@ 1 :> 1)]
  /\ call.b = [nd |-> 2, sh |-> (0 :> 1 @@ 1 :> 4)]
  /\ call.ok
  /\ call.out_shape[0] = 3
  /\ call.out_shape[1] = 4

(***************************************************************************)
(* Properties of the kernel specification (SpecKernel)                     *)
(***************************************************************************)
\* The tensor operands of each kernel entry point.
Operands(op) ==
  CASE op \in {"binary_op", "gemm", "matmul"} -> {"a", "b", "out"}
    [] op = "reduce_all" -> {"a"}
    [] OTHER -> {"a", "out"}

\* All three operands are F32 tensors on the CPU.
AllF32OnCpu ==
  \A i \in KernelSlots : tensors[i].device = "CPU" /\ tensors[i].dtype = "F32"

\* Element i of t in heap h.
Elem(h, t, i) == Peek(h, FloatAt(t.data, i), FloatW, NaN)

\* The elements 0 .. n - 1 of t in heap h.
Elems(h, t, n) == [i \in 1 .. n |-> Elem(h, t, i - 1)]

\* The addresses of the elements 0 .. n - 1 of t.
ElemAddrs(t, n) == {FloatAt(t.data, i) : i \in 0 .. (n - 1)}

\* C14: for F32 CPU operands binary_op (add, sub, mul, div) writes
\* out[i] = a[i] op b[i] for every output index when a and b have the same
\* element count, out[i] = a[i] op b[0] when b has exactly one element, and
\* nothing otherwise; add([1,2,3,4],[5,6,7,8]) = [6,8,10,12] and mul of the
\* same = [5,12,21,32].
C14_BinaryOpShapes ==
  (kernel.op = "binary_op" /\ AllF32OnCpu /\ kernel.arg[1] \in BinaryCases
     /\ \A i \in KernelSlots : tensors[i].data # Null) =>
    LET op == kernel.arg[1]
        a == tensors["a"]
        b == tensors["b"]
        out == tensors["out"]
        n == numel(out)
    IN /\ numel(a) = numel(b) =>
            /\ kernel.writes = ElemAddrs(out, n)
            /\ \A i \in 0 .. (n - 1) :
                 Elem(heap, out, i) = BinaryF(op, Elem(kernel.before, a, i), Elem(kernel.before, b, i))
       /\ (numel(a) # numel(b) /\ numel(b) = 1) =>
            /\ kernel.writes = ElemAddrs(out, n)
            /\ \A i \in 0 .. (n - 1) :
                 Elem(heap, out, i) = BinaryF(op, Elem(kernel.before, a, i), Elem(kernel.before, b, 0))
       /\ (numel(a) # numel(b) /\ numel(b) # 1) =>
            (kernel.writes = {} /\ heap = kernel.before)
       /\ (Elems(kernel.before, a, 4) = <<1, 2, 3, 4>> /\ Elems(kernel.before, b, 4) = <<5, 6, 7, 8>>
              /\ numel(a) = 4 /\ numel(b) = 4 /\ n = 4) =>
            /\ op = "ADD" => Elems(heap, out, 4) = <<6, 8, 10, 12>>
            /\ op = "MUL" => Elems(heap, out, 4) = <<5, 12, 21, 32>>

C14_Witness ==
  /\ kernel.op = "binary_op"
  /\ kernel.arg[1] = "MUL"
  /\ AllF32OnCpu
  /\ tensors["a"].ndim = 1
  /\ Elems(kernel.before, tensors["a"], 4) = <<1, 2, 3, 4>>
  /\ Elems(kernel.before, tensors["b"], 4) = <<5, 6, 7, 8>>
  /\ Elems(heap, tensors["out"], 4) = <<5, 12, 21, 32>>

\* The element of the rank-2 tensor t at row i, column j in heap h.
At2(h, t, i, j) == Peek(h, Address(t, (0 :> i @@ 1 :> j)), FloatW, NaN)

\* sum over k < K of A[m, k] * B[k, n]
RECURSIVE MatDot(_, _, _, _, _, _)
MatDot(h, A, B, m, n, K) ==
  IF K = 0 THEN 0
  ELSE FAdd(MatDot(h, A, B, m, n, K - 1), FMul(At2(h, A, m, K - 1), At2(h, B, K - 1, n)))

\* A[M,K], B[K,N] and C[M,N] are contiguous matrices of agreeing shapes.
GemmShapesAgree ==
  /\ \A i \in KernelSlots : tensors[i].ndim = 2 /\ is_contiguous(tensors[i])
  /\ tensors["b"].shape[0] = tensors["a"].shape[1]
  /\ tensors["out"].shape[0] = tensors["a"].shape[0]
  /\ tensors["out"].shape[1] = tensors["b"].shape[1]

C16_GemmMismatchIsNoOp ==
  LET A == tensors["a"]
      B == tensors["b"]
      C == tensors["out"]
  IN (/\ kernel.op \in {"gemm", "matmul"}
      /\ \/ \E i \in KernelSlots : tensors[i].ndim # 2 \/ tensors[i].dtype # "F32"
         \/ A.shape[1] # B.shape[0]
         \/ C.shape[0] # A.shape[0]
         \/ C.shape[1] # B.shape[1])
       => (kernel.writes = {} /\ heap = kernel.before)

C16_Witness ==
  /\ kernel.op = "gemm"
  /\ kernel.arg = <<1, 1>>
  /\ AllF32OnCpu
  /\ \A i \in KernelSlots : tensors[i].ndim = 2
  /\ tensors["a"].shape[1] = tensors["b"].shape[0]
  /\ tensors["out"].shape[0] = tensors["a"].shape[0]
  /\ tensors["out"].shape[1] # tensors["b"].shape[1]
  /\ kernel.writes = {}
  /\ heap = kernel.before

\* The sum and the product of the sequence xs.
RECURSIVE SeqSum(_)
SeqSum(xs) == IF xs = <<>> THEN 0 ELSE FAdd(SeqSum(SubSeq(xs, 1, Len(xs) - 1)), xs[Len(xs)])

RECURSIVE SeqProd(_)
SeqProd(xs) == IF xs = <<>> THEN 1 ELSE FMul(SeqProd(SubSeq(xs, 1, Len(xs) - 1)), xs[Len(xs)])

\* The reduction op of the non-empty sequence of numbers xs.
Reduction(op, xs) ==
  LET range == {xs[i] : i \in 1 .. Len(xs)}
  IN CASE op = "SUM" -> SeqSum(xs)
       [] op = "PROD" -> SeqProd(xs)
       [] op = "MAX" -> CHOOSE x \in range : \A y \in range : y <= x
       [] op = "MIN" -> CHOOSE x \in range : \A y \in range : y >= x
       [] op = "MEAN" -> FDiv(SeqSum(xs), Len(xs))

\* C17: for a contiguous F32 tensor reduce_all returns the fold of all its
\* numel elements (sum, product, largest, smallest, sum divided by numel);
\* for numel = 0 it returns 0 for every kind and for a non-F32 tensor it
\* returns 0; sum_all([0,1,2,3,4,5]) = 15.
C17_ReduceAll ==
  kernel.op = "reduce_all" =>
    LET a == tensors["a"]
        op == kernel.arg[1]
        xs == Elems(kernel.before, a, numel(a))
    IN /\ a.dtype # "F32" => kernel.ret = 0
       /\ (a.dtype = "F32" /\ numel(a) = 0) => kernel.ret = 0
       /\ (a.dtype = "F32" /\ numel(a) > 0 /\ is_contiguous(a) /\ a.data # Null) =>
            kernel.ret = Reduction(op, xs)
       /\ (a.dtype = "F32" /\ xs = <<0, 1, 2, 3, 4, 5>> /\ op = "SUM") => kernel.ret = 15
       /\ heap = kernel.before

C17_Witness ==
  /\ kernel.op = "reduce_all"
  /\ kernel.arg = <<"SUM">>
  /\ tensors["a"].ndim = 2
  /\ Elems(kernel.before, tensors["a"], numel(tensors["a"])) = <<0, 1, 2, 3, 4, 5>>
  /\ kernel.ret = 15

\* Every byte outside the n floats at p is as it was before the kernel call.
OnlyWritten(p, n) ==
  \A b \in BufIds : \A j \in 1 .. heap[b].size :
    (b = p.buf /\ j > p.off /\ j <= p.off + (n * FloatW))
      \/ heap[b].cells[j] = kernel.before[b].cells[j]

\* C18: for a contiguous F32 input of rank >= 1 with last extent L >= 1 and
\* an F32 output, reduce_last_axis writes exactly the numel / L first output
\* elements, element r being the reduction of the input elements
\* r*L .. r*L + L - 1; for a rank-0 input or a non-F32 operand it writes
\* nothing.  sum over shape [2,3] filled 0..5 yields [3,12].
C18_ReduceLastAxis ==
  kernel.op = "reduce_last_axis" =>
    LET a == tensors["a"]
        out == tensors["out"]
        op == kernel.arg[1]
        L == a.shape[a.ndim - 1]
        rows == numel(a) \div L
        Row(r) == [i \in 1 .. L |-> Elem(kernel.before, a, (r * L) + i - 1)]
    IN /\ (a.dtype # "F32" \/ out.dtype # "F32" \/ a.ndim = 0) =>
            (kernel.writes = {} /\ heap = kernel.before)
       /\ (a.dtype = "F32" /\ out.dtype = "F32" /\ a.ndim >= 1 /\ L >= 1 /\ is_contiguous(a)
             /\ a.data # Null /\ out.data # Null) =>
            /\ kernel.writes = ElemAddrs(out, rows)
            /\ \A r \in 0 .. (rows - 1) : Elem(heap, out, r) = Reduction(op, Row(r))
            /\ OnlyWritten(out.data, rows)
            /\ (op = "SUM" /\ a.ndim = 2 /\ a.shape[0] = 2 /\ L = 3
                  /\ Elems(kernel.before, a, 6) = <<0, 1, 2, 3, 4, 5>>) =>
                 Elems(heap, out, 2) = <<3, 12>>

C18_Witness ==
  /\ kernel.op = "reduce_last_axis"
  /\ kernel.arg = <<"SUM">>
  /\ tensors["a"].ndim = 2
  /\ tensors["a"].shape[1] = 3
  /\ Elems(kernel.before, tensors["a"], 6) = <<0, 1, 2, 3, 4, 5>>
  /\ Elems(heap, tensors["out"], 2) = <<3, 12>>
  /\ kernel.writes = ElemAddrs(tensors["out"], 2)

\* Two scalars have the same dtype and the same dtype_size value bytes.
SameScalar(x, y) ==
  /\ x.dtype = y.dtype
  /\ to_bytes(x) = to_bytes(y)

\* C19: for a scalar s of any of the 13 element types, from_scalar(s) on the
\* CPU whose allocation succeeds returns a rank-0 tensor with dtype = s.dtype
\* and owns_data = true over a newly allocated block of dtype_size(s.dtype)
\* bytes holding s's bytes, and to_scalar() of that tensor has the dtype and
\* the dtype_size value bytes of s; from_bytes of a buffer written by
\* s.to_bytes, with s.dtype, reproduces s; to_scalar() of a tensor of rank # 0
\* or with null data is the default Scalar (F32 zero).
C19_ScalarRoundTrip ==
  LET s == call.s
      t == tensors["t"]
  IN /\ (last.op = "from_scalar" /\ t.device = "CPU" /\ t.data # Null) =>
          /\ t.ndim = 0
          /\ t.dtype = s.dtype
          /\ t.owns_data
          /\ last.calls = {Call("platform", "posix_memalign")}
          /\ last.bytes = dtype_size(s.dtype)
          /\ t.data.off = 0
          /\ heap[t.data.buf].state = "live"
          /\ heap[t.data.buf].size = dtype_size(s.dtype)
          /\ heap[t.data.buf].cells = to_bytes(s)
     /\ (call.fn = "to_scalar" /\ call.op = "from_scalar" /\ call.t.device = "CPU"
           /\ call.t.data # Null) =>
          (SameScalar(call.result, s) /\ ~aborted)
     /\ (call.fn = "from_bytes" /\ call.dt = s.dtype) => SameScalar(call.result, s)
     /\ (call.fn = "to_scalar" /\ (call.t.ndim # 0 \/ call.t.data = Null)) =>
          (call.result = DefaultScalar /\ ~aborted)

C19_Witness ==
  /\ call.fn = "to_scalar"
  /\ call.op = "from_scalar"
  /\ call.t.device = "CPU"
  /\ call.t.data # Null
  /\ call.s.dtype = "F64"
  /\ call.result.dtype = "F64"
  /\ to_bytes(call.result) = [k \in 1 .. 8 |-> Cell("val", 1, k - 1)]

\* The pointers and sizes a caller may hand to the allocation entry points.
AllocSizes == 0 .. ValueBytes
FreePtrs == {Null, Ptr(ExtBuf, 0)} \cup {Ptr(b, 0) : b \in BufIds}

\* C20: mem_alloc and SystemAllocator::alloc return null when the size is 0
\* or the device is not CPU, and mem_free and SystemAllocator::free on a null
\* pointer or a non-CPU device reach no platform call and change nothing;
\* Tensor::alloc with a shape of element count 0, or on GPU/NPU, returns a
\* tensor with data = null and owns_data = false without touching the heap,
\* and free() on a tensor with null data makes no allocator call and changes
\* nothing.  (A step that leaves call as it was is a tensor operation, the
\* one last' names.)
C20_NullAllocation ==
  [][/\ \A size \in AllocSizes, device \in Devices :
          (size = 0 \/ device # "CPU") =>
            /\ mem_alloc(size, dtype_alignment("F32"), device) = {Null}
            /\ SystemAllocatorAlloc(size, dtype_alignment("F32"), device) = {Null}
            /\ mem_alloc_calls(size, device) = {}
     /\ \A ptr \in FreePtrs, device \in Devices :
          (ptr = Null \/ device # "CPU") =>
            /\ mem_free(ptr, device) = {<<heap, FALSE>>}
            /\ mem_free_calls(ptr, device) = {}
            /\ SystemAllocatorFreeCalls(ptr, device) = {}
     /\ (last'.op = "alloc" /\ call' = call
           /\ (numel(tensors'["t"]) = 0 \/ tensors'["t"].device # "CPU")) =>
          /\ tensors'["t"].data = Null
          /\ ~tensors'["t"].owns_data
          /\ last'.calls = {}
          /\ heap' = heap
     /\ \A i \in Slots :
          (last'.op = "free" /\ last'.src = i /\ call' = call /\ tensors[i].data = Null) =>
            /\ last'.calls = {}
            /\ tensors' = tensors
            /\ heap' = heap
            /\ aborted' = aborted]_vars

C20_Witness ==
  /\ last.op = "free"
  /\ last.calls = {}
  /\ tensors["t"].device = "NPU"
  /\ tensors["t"].ndim = 1
  /\ tensors["t"].shape[0] = MaxExtent
  /\ tensors["t"].data = Null
  /\ ~tensors["t"].owns_data
  /\ \A b \in BufIds : heap[b].state = "unused"

\* x and y have the same rank, extents and strides.
SameRankShapeStrides(x, y) ==
  /\ x.ndim = y.ndim
  /\ \A i \in 0 .. (x.ndim - 1) : x.shape[i] = y.shape[i] /\ x.strides[i] = y.strides[i]

\* y is x with the extents and strides of the last two dimensions swapped.
LastTwoSwapped(x, y) ==
  /\ y.ndim = x.ndim
  /\ y.shape[x.ndim - 1] = x.shape[x.ndim - 2]
  /\ y.shape[x.ndim - 2] = x.shape[x.ndim - 1]
  /\ y.strides[x.ndim - 1] = x.strides[x.ndim - 2]
  /\ y.strides[x.ndim - 2] = x.strides[x.ndim - 1]
  /\ \A i \in 0 .. (x.ndim - 3) : y.shape[i] = x.shape[i] /\ y.strides[i] = x.strides[i]

\* Tensors one rank above the ones the specifications create, as
\* Tensor::alloc lays them out.
DeepTensors ==
  {alloc([i \in Dims |-> IF i <= MaxRank THEN f[i] ELSE 0], MaxRank + 1, "F32", "CPU", Null) :
     f \in [0 .. MaxRank -> 1 .. MaxExtent]}

\* C21: for every tensor t, t.transpose().transpose() has the rank, extents
\* and strides of t; for rank >= 2 one transpose swaps exactly the extents
\* and strides of the last two dimensions and keeps the others, for rank < 2
\* it changes no extent or stride.
C21_TransposeInvolution ==
  /\ \A t \in {tensors[i] : i \in Slots} \cup DeepTensors :
       /\ SameRankShapeStrides(transpose(transpose(t)), t)
       /\ t.ndim >= 2 => LastTwoSwapped(t, transpose(t))
       /\ t.ndim < 2 => SameRankShapeStrides(transpose(t), t)
  /\ (last.op = "transpose" /\ last.src = "t") =>
       /\ tensors["t"].ndim >= 2 => LastTwoSwapped(tensors["t"], tensors["v"])
       /\ tensors["t"].ndim < 2 => SameRankShapeStrides(tensors["v"], tensors["t"])

C21_Witness ==
  /\ last.op = "transpose"
  /\ last.src = "t"
  /\ tensors["t"].ndim = MaxRank
  /\ tensors["t"].shape[MaxRank - 1] # tensors["t"].shape[MaxRank - 2]
  /\ tensors["v"].shape[MaxRank - 1] = tensors["t"].shape[MaxRank - 2]
  /\ tensors["v"].strides[MaxRank - 1] = tensors["t"].strides[MaxRank - 2]
  /\ tensors["v"].strides[MaxRank - 1] # tensors["v"].strides[MaxRank - 2]

\* The dimensions of x with extent other than 1, and the place of such a
\* dimension among them.
KeptDims(x) == {i \in 0 .. (x.ndim - 1) : x.shape[i] # 1}
PlaceOf(x, i) == Cardinality({j \in KeptDims(x) : j < i})

\* y is a view of x over the dimensions of extent # 1, in their order.
IsSqueezeOf(y, x) ==
  /\ y.data = x.data
  /\ ~y.owns_data
  /\ y.ndim = Cardinality(KeptDims(x))
  /\ \A i \in KeptDims(x) :
       /\ y.shape[PlaceOf(x, i)] = x.shape[i]
       /\ y.strides[PlaceOf(x, i)] = x.strides[i]

\* y is x without dimension dim, the later dimensions shifted down by one.
IsWithoutDim(y, x, dim) ==
  /\ y.ndim = x.ndim - 1
  /\ \A i \in 0 .. (x.ndim - 2) :
       LET k == IF i < dim THEN i ELSE i + 1
       IN y.shape[i] = x.shape[k] /\ y.strides[i] = x.strides[k]

\* What squeeze_dim(x, dim) is documented to return.
IsSqueezeDimOf(y, x, dim) ==
  IF dim >= 0 /\ dim < x.ndim /\ x.shape[dim] = 1
  THEN IsWithoutDim(y, x, dim)
  ELSE SameRankShapeStrides(y, x)

\* ReshapeTest.Squeeze: shape {1,3,1,4,1}, strides {48,16,16,4,4}.
SqueezeTestTensor ==
  view(Null, [i \in Dims |-> IF i < 5 THEN <<1, 3, 1, 4, 1>>[i + 1] ELSE 0],
       [i \in Dims |-> IF i < 5 THEN <<48, 16, 16, 4, 4>>[i + 1] ELSE 0], 5, "F32", "CPU")

\* C22: squeeze returns a view whose rank is the number of source
\* dimensions with extent # 1 and whose (extent, stride) pairs are those
\* dimensions in their order; squeeze_dim(dim) removes dimension dim and
\* shifts the later pairs down when 0 <= dim < rank and shape[dim] = 1, and
\* otherwise keeps rank, extents and strides.
C22_SqueezeCompacts ==
  /\ \A x \in {tensors[i] : i \in Slots} \cup DeepTensors \cup {SqueezeTestTensor} :
       /\ IsSqueezeOf(squeeze(x), x)
       /\ \A dim \in (0 - 1) .. x.ndim : IsSqueezeDimOf(squeeze_dim(x, dim), x, dim)
  /\ squeeze(SqueezeTestTensor).ndim = 2
  /\ squeeze(SqueezeTestTensor).shape[0] = 3
  /\ squeeze(SqueezeTestTensor).shape[1] = 4
  /\ (last.op = "squeeze" /\ last.src = "t") => IsSqueezeOf(tensors["v"], tensors["t"])
  /\ (last.op = "squeeze_dim" /\ last.src = "t") =>
       \E dim \in DimArgs : IsSqueezeDimOf(tensors["v"], tensors["t"], dim)

C22_Witness ==
  /\ last.op = "squeeze"
  /\ last.src = "t"
  /\ tensors["t"].ndim = 2
  /\ tensors["t"].shape[0] = 1
  /\ tensors["t"].shape[1] = 2
  /\ tensors["v"].ndim = 1
  /\ tensors["v"].shape[0] = 2
  /\ tensors["v"].strides[0] = tensors["t"].strides[1]

\* max(x, 0) and -x on floats.
ReluOf(x) == IF x # NaN /\ x > 0 THEN x ELSE 0
NegOf(x) == IF x = NaN THEN NaN ELSE 0 - x

Rank2ShapesAgree ==
  /\ \A i \in KernelSlots : tensors[i].ndim = 2 /\ tensors[i].data # Null
  /\ tensors["b"].shape[0] = tensors["a"].shape[1]
  /\ tensors["out"].shape[0] = tensors["a"].shape[0]
  /\ tensors["out"].shape[1] = tensors["b"].shape[1]

\* C24: for rank-2 F32 CPU tensors A[M,K], B[K,N], C[M,N] of agreeing
\* shapes, contiguous or not, gemm leaves C(m,n) = alpha * sum over k of
\* A(m,k) * B(k,n) + beta * C_prev(m,n), X(i,j) being the element at byte
\* offset i*strides[0] + j*strides[1] from X.data.
C24_GemmFollowsStrides ==
  (kernel.op \in {"gemm", "matmul"} /\ AllF32OnCpu /\ Rank2ShapesAgree) =>
    LET A == tensors["a"]
        B == tensors["b"]
        C == tensors["out"]
        alpha == IF kernel.op = "gemm" THEN kernel.arg[1] ELSE 1
        beta == IF kernel.op = "gemm" THEN kernel.arg[2] ELSE 0
        Cells == (0 .. (C.shape[0] - 1)) \X (0 .. (C.shape[1] - 1))
        Stored2(m, n) == HasValue(kernel.before, Address(C, (0 :> m @@ 1 :> n)), FloatW)
    IN \E g \in Garbage : \A c \in Cells :
         At2(heap, C, c[1], c[2]) =
           FAdd(FMul(alpha, MatDot(kernel.before, A, B, c[1], c[2], A.shape[1])),
                FMul(beta, IF Stored2(c[1], c[2]) THEN At2(kernel.before, C, c[1], c[2]) ELSE g))

\* C25: in every state reachable by Tensor::alloc, the view derivations,
\* clone, free and reset, every tensor whose data pointer is non-null (and
\* points into the allocator's memory) refers to a block that is currently
\* allocated: no view holds the address of a released block.
C25_NoDanglingData ==
  \A i \in Slots :
    (tensors[i].data # Null /\ tensors[i].data.buf \in BufIds) =>
      heap[tensors[i].data.buf].state = "live"

\* C26: binary_op and scalar_op index no operand outside its element range:
\* for F32 CPU operands with non-null data and any element counts, every
\* read is of an element a[i], i < numel(a), or b[i], i < numel(b), and
\* every write is of an element out[i], i < numel(out).
C26_ElementwiseInRange ==
  (/\ kernel.op \in {"binary_op", "scalar_op"}
   /\ \A i \in Operands(kernel.op) :
        tensors[i].device = "CPU" /\ tensors[i].dtype = "F32" /\ tensors[i].data # Null) =>
    LET a == tensors["a"]
        b == tensors["b"]
        out == tensors["out"]
    IN /\ kernel.reads \subseteq
            ElemAddrs(a, numel(a))
              \cup (IF kernel.op = "binary_op" THEN ElemAddrs(b, numel(b)) ELSE {})
       /\ kernel.writes \subseteq ElemAddrs(out, numel(out))

\* The float element of x at multi-index idx.
ElemAt(x, idx) == Peek(heap, Address(x, idx), FloatW, NaN)

\* C27: for a source tensor with non-null data, contiguous or a view made by
\* transpose, slice or expand, clone() returns an owning, contiguous tensor
\* of the same shape in a new buffer whose element at every multi-index is
\* the source element at that multi-index (taken through the source
\* strides), without an undefined read.
C27_CloneIsDeepCopy ==
  LET src == tensors[last.src]
      c == tensors[IF last.src = "t" THEN "v" ELSE "t"]
  IN (last.op = "clone" /\ src.data # Null /\ c.data # Null) =>
       /\ ~aborted
       /\ c.owns_data
       /\ is_contiguous(c)
       /\ c.data.buf # src.data.buf
       /\ c.ndim = src.ndim
       /\ \A i \in 0 .. (src.ndim - 1) : c.shape[i] = src.shape[i]
       /\ \A idx \in Indices(src) : ElemAt(c, idx) = ElemAt(src, idx)

\* squeeze_dim undoes unsqueeze: rank, extents and strides come back.
SqueezeUndoesUnsqueeze ==
  \A t \in {tensors[i] : i \in Slots} \cup DeepTensors :
    t.ndim < MAX_DIMS =>
      \A dim \in 0 .. t.ndim :
        SameRankShapeStrides(squeeze_dim(unsqueeze(t, dim), dim), t)

\* C28: for every contiguous tensor t of rank < MAX_DIMS and every dim with
\* 0 <= dim <= rank, unsqueeze(t, dim) is contiguous, and
\* squeeze_dim(unsqueeze(t, dim), dim) has the rank, extents and strides of t.
C28_UnsqueezeKeepsContiguity ==
  /\ (last.op = "unsqueeze" /\ last.src = "t" /\ is_contiguous(tensors["t"])
        /\ tensors["v"].ndim = tensors["t"].ndim + 1) =>
       is_contiguous(tensors["v"])
  /\ SqueezeUndoesUnsqueeze

\* C29: the two broadcast-compatibility checks agree and are symmetric:
\* a.broadcastable_with(b) equals can_broadcast on the two shapes and equals
\* b.broadcastable_with(a); and when broadcast_shape succeeds on (A, B) and on
\* (B, A) the two calls produce the same output rank and extents.
C29_BroadcastChecksAgree ==
  call.fn = "broadcastable_with" =>
    LET ab == broadcast_shape(call.a.sh, call.a.nd, call.b.sh, call.b.nd,
                              [i \in Dims |-> Unwritten])
        ba == broadcast_shape(call.b.sh, call.b.nd, call.a.sh, call.a.nd,
                              [i \in Dims |-> Unwritten])
    IN /\ call.ok = can_broadcast(call.a.sh, call.a.nd, call.b.sh, call.b.nd)
       /\ call.ok = broadcastable_with(Shaped(call.b), Shaped(call.a))
       /\ call.ok = can_broadcast(call.b.sh, call.b.nd, call.a.sh, call.a.nd)
       /\ (ab.ok /\ ba.ok) =>
            (ab.out_ndim = ba.out_ndim /\ ab.out_shape = ba.out_shape)

\* [3,1] against [4] is accepted in both directions and gives [3,4] either
\* way round, with operands of different rank and a 1 on one side only.
C29_Witness ==
  /\ call.fn = "broadcastable_with"
  /\ call.a = [nd |-> 2, sh |-> (0 :> 3 @@ 1 :> 1)]
  /\ call.b = [nd |-> 1, sh |-> (0 :> 4)]
  /\ call.ok
  /\ broadcastable_with(Shaped(call.b), Shaped(call.a))
  /\ broadcast_shape(call.b.sh, call.b.nd, call.a.sh, call.a.nd,
                     [i \in Dims |-> Unwritten]).out_shape[1] = 4

\* C30: after any sequence of add_input and add_output calls in any
\* interleaving, num_inputs + num_outputs never exceeds MAX_FUNC_ARGS, a call
\* made at capacity changes nothing, and args holds in slots [0, num_inputs)
\* exactly the accepted input descriptors in the order added and in slots
\* [num_inputs, num_inputs + num_outputs) exactly the accepted output
\* descriptors in the order added, none lost or overwritten.
C30_SigArgsInOrder ==
  call.fn \in {"add_input", "add_output"} =>
    /\ total_args(call.sig) <= MAX_FUNC_ARGS
    /\ total_args(call.before) >= MAX_FUNC_ARGS => call.sig = call.before
    /\ call.sig.num_inputs = Len(call.inputs)
    /\ call.sig.num_outputs = Len(call.outputs)
    /\ \A i \in 1 .. Len(call.inputs) : call.sig.args[i - 1] = call.inputs[i]
    /\ \A i \in 1 .. Len(call.outputs) :
         call.sig.args[call.sig.num_inputs + i - 1] = call.outputs[i]

\* The counters never pass the capacity and a call at capacity changes
\* nothing, whatever the interleaving.
SigCountersBounded ==
  call.fn \in {"add_input", "add_output"} =>
    /\ total_args(call.sig) <= MAX_FUNC_ARGS
    /\ total_args(call.before) >= MAX_FUNC_ARGS => call.sig = call.before
    /\ call.sig.num_inputs = Len(call.inputs)
    /\ call.sig.num_outputs = Len(call.outputs)

\* C7: a kernel call with an operand whose device is not CPU reads no
\* element of any operand and writes no element of the output.
C7_NonCpuOperandUntouched ==
  (kernel.op # "none" /\ \E i \in Operands(kernel.op) : tensors[i].device # "CPU")
    => (kernel.reads = {} /\ kernel.writes = {})

====
